---- MODULE Spec2Model ----
(***************************************************************************)
(* A model of mpy-coverage: the settrace hook of tracer.py, the line-table  *)
(* decoder of mpy_analysis.py, the merge engine, path mapper and report    *)
(* orchestrator of report.py, and the report and test-map subcommands of   *)
(* cli.py.                                                                 *)
(*                                                                         *)
(* Python dicts are modelled as ordered dicts: a sequence of <<key, value>> *)
(* pairs with distinct keys, in insertion order (the order json.dumps      *)
(* writes them in).  Python sets are TLA+ sets; sorted() turns a set into  *)
(* the ascending sequence of its elements.                                 *)
(***************************************************************************)
EXTENDS Integers, Sequences, FiniteSets, TLC

VARIABLES
    json_files,     \* merge_coverage_data's argument: the stored record files
    merged,         \* the dict merge_coverage_data returned
    merge_pc,       \* "idle" | "done" (returned) | "raised" (exception left the call)
    \* tracer.py's module globals
    _executed,          \* dict filename -> set of lines
    _executable,        \* dict filename -> set of lines
    _arcs,              \* dict filename -> set of <<from, to>>
    _last_line_stack,   \* list of <<filename, last_line>>
    _include,           \* None or a list of patterns
    _exclude,           \* None or a list of patterns
    _collect_executable,
    _collect_arcs,
    _seen_codes,        \* set of id(code)
    _test_script,       \* None or a name
    settrace,           \* the hook sys.settrace holds: "None" | "_global_trace"
    \* the tracer's surroundings
    event,              \* the last operation: start, stop, or an event given to the hook
    hook_ret,           \* what the hook returned for it: "None" | "_local_trace"
    hook_exc,           \* the exception that left the hook, "none" if it returned
    observed,           \* history: the <<filename, line>> of the line events since the last start()
    discarded,          \* history: the <<filename, line>> held in _executed when start() last ran
    nEvents,            \* number of operations so far
    \* mpy_analysis.py: one call of get_executable_lines
    py_files,           \* its argument: the batch of source files
    mpy_cross,          \* its argument: the compiler binary, "present" | "absent"
    decoder_result,     \* the dict it returned: filename -> set of lines
    decoder_warnings,   \* the files it warned about on stderr, in order
    decoder_pc,         \* "idle" | "done" (returned) | "raised"
    \* report.py: one call of run_report
    report_args,        \* its arguments: cov_data, method, source_root, path_maps, mpy_cross
    report,             \* its outcome: what it resolved, gave the engine and returned
    report_pc,          \* "idle" | "done" (returned) | "raised"
    \* cli.py: the report subcommand on the data directory json_files
    cmd_ret,            \* what cmd_report returned: NotCalled, Returned(status) or Raised(exc)
    \* report.py: one call of _apply_path_map
    filenames,          \* its argument: the reported paths
    path_maps,          \* its argument: the list of "device=host" rules
    source_paths,       \* the dict it returned: filename -> resolved path
    \* cli.py: the test-map subcommand
    data_dir,           \* the *.json files of the data directory, sorted by name
    line_detail,        \* args.line_detail
    rows,               \* the rows it printed, in order
    test_map_ret,       \* what cmd_test_map returned
    \* the target's output and its extraction
    capture,            \* the record export_json() is given by get_data()
    stdout,             \* the text the target process wrote to its stdout
    target_pc,          \* the target: "running" | "exported" | "exited"
    extracted,          \* what cli.py's _extract_json_from_output made of it
    load_ret,           \* what report.py's _load_json made of a file holding it
    \* cli.py: the run subcommand
    cwd_files,          \* the working directory: a set of <<name, content>>
    store,              \* the data directory: dict file name -> the record stored
    clock,              \* datetime.now(), in ticks
    run_call,           \* the last call of cmd_run: its args and what it met
    run_ret,            \* what that call returned
    runs,               \* history: the number of calls of cmd_run
    succeeded,          \* history: the number of calls that returned 0
    procs,              \* the unix runs under way at once: where each one is
    \* mpy_analysis.py: one call of _extract_lines_from_raw_code
    unit,               \* its argument: a compiled unit with its nested units
    decoded_lines,      \* the set it filled
    decoded,            \* whether it has returned
    \* the traced program
    call_stack,         \* history: the frames that are active, outermost first
    nStarts             \* history: the number of calls of start()

mergeVars == <<json_files, merged, merge_pc>>

decoderVars == <<py_files, mpy_cross, decoder_result, decoder_warnings, decoder_pc>>

tracerGlobals ==
    <<_executed, _executable, _arcs, _last_line_stack, _include, _exclude,
      _collect_executable, _collect_arcs, _seen_codes, _test_script, settrace>>

tracerVars == <<tracerGlobals, event, hook_ret, hook_exc, observed, discarded, nEvents>>

reportVars == <<report_args, report, report_pc>>

pathVars == <<filenames, path_maps, source_paths>>

testMapVars == <<data_dir, line_detail, rows, test_map_ret>>

exportVars == <<capture, stdout, target_pc, extracted, load_ret>>

\* the run subcommand and the target process it drives
runVars == <<cwd_files, store, clock, run_call, run_ret, runs, succeeded>>

runSideVars == <<exportVars, runVars, procs>>

tableVars == <<unit, decoded_lines, decoded>>

programVars == <<call_stack, nStarts>>

\* everything outside the tracer module
hostVars ==
    <<mergeVars, decoderVars, reportVars, cmd_ret, pathVars, testMapVars, runSideVars,
      tableVars, programVars>>

vars == <<hostVars, tracerVars>>

----------------------------------------------------------------------------
(* Bounds *)

MaxLine == 2        \* line numbers of the sample records are 1..MaxLine
MaxRecords == 2     \* at most this many record files are handed to the merge
MaxEvents == 6      \* at most this many operations on the tracer in one run
MaxPatterns == 1    \* include and exclude lists hold at most this many patterns
MaxBatch == 2       \* at most this many source files in one batch of the decoder
MaxReported == 2    \* at most this many files in a record handed to run_report
MaxRules == 2       \* at most this many path-mapping rules
MaxRuns == 2        \* at most this many calls of the run subcommand
MaxClock == 2       \* the clock stops after this many ticks
MaxDepth == 3       \* at most this many frames of the traced program are active
MaxDelta == 2       \* the increments of a line-table entry are 0..MaxDelta
MaxEntries == 2     \* a line table holds at most this many entries
MaxChildren == 1    \* a compiled unit holds at most this many nested units

----------------------------------------------------------------------------
(* Python building blocks *)

Range(s) == {s[i] : i \in 1..Len(s)}

\* key in d
DictHas(d, k) == \E i \in 1..Len(d) : d[i][1] = k

\* d[key]
DictGet(d, k) == d[CHOOSE i \in 1..Len(d) : d[i][1] = k][2]

\* d.get(key, default)
DictGetOr(d, k, default) == IF DictHas(d, k) THEN DictGet(d, k) ELSE default

\* d[key] = v : an existing key keeps its position, a new key goes last
DictPut(d, k, v) ==
    IF DictHas(d, k)
    THEN [i \in 1..Len(d) |-> IF d[i][1] = k THEN <<k, v>> ELSE d[i]]
    ELSE Append(d, <<k, v>>)

DictKeys(d) == [i \in 1..Len(d) |-> d[i][1]]

\* d1 == d2 for dicts: the same keys with the same values, in any order
DictEq(d1, d2) ==
    /\ Range(DictKeys(d1)) = Range(DictKeys(d2))
    /\ \A k \in Range(DictKeys(d1)) : DictGet(d1, k) = DictGet(d2, k)

SetMin(S) == CHOOSE m \in S : \A x \in S : m <= x

RECURSIVE sorted(_)
\* sorted(S) of a set of integers
sorted(S) == IF S = {} THEN <<>> ELSE <<SetMin(S)>> \o sorted(S \ {SetMin(S)})

----------------------------------------------------------------------------
(* Stored record files (the sample the merge is run on) *)

FooPy == <<"f", "o", "o", ".", "p", "y">>
BarPy == <<"b", "a", "r", ".", "p", "y">>
RecordFileNames == {FooPy, BarPy}

LineLists == {sorted(S) : S \in (SUBSET (1..MaxLine)) \ {{}}}

\* A capture record as json.loads returns it: {"executed": {file: [lines]}}
ExecutedRecord(d) == << <<"executed", d>> >>

\* ... with arc data: {"executed": {...}, "arcs": {file: [[from, to], ...]}}
ArcRecord(d, a) == << <<"executed", d>>, <<"arcs", a>> >>

\* the arcs of one call of a callable whose first line is 1, running the lines
ArcsOfRun(lines) ==
    << <<-1, lines[1]>> >>
    \o [i \in 1..(Len(lines) - 1) |-> <<lines[i], lines[i + 1]>>]
    \o << <<lines[Len(lines)], -1>> >>

RecordData ==
    {ExecutedRecord(<< <<f, l>> >>) : f \in RecordFileNames, l \in LineLists}
    \cup {ExecutedRecord(<< <<f, <<l1>> >>, <<g, <<l2>> >> >>) :
            <<f, g>> \in {<<FooPy, BarPy>>, <<BarPy, FooPy>>},
            <<l1, l2>> \in (1..MaxLine) \X (1..MaxLine)}
    \cup {ArcRecord(<< <<FooPy, l>> >>, << <<FooPy, ArcsOfRun(l)>> >>) :
            l \in {sorted(1..MaxLine)}}

\* a file of the data directory: its text parses to `data`, or does not parse
StoredFile(data) == [parseable |-> TRUE, data |-> data]
MalformedFile == [parseable |-> FALSE, data |-> <<>>]

StoredFiles == {StoredFile(d) : d \in RecordData} \cup {MalformedFile}

RECURSIVE SeqsUpTo(_, _)
SeqsUpTo(S, n) ==
    IF n = 0 THEN {<<>>}
    ELSE LET shorter == SeqsUpTo(S, n - 1)
         IN shorter \cup {Append(s, x) : s \in shorter, x \in S}

----------------------------------------------------------------------------
(* report.py: _load_json, merge_coverage_data *)

\* json.loads of the file's text: the data, or JSONDecodeError
_load_json(file) ==
    IF file.parseable
    THEN [exc |-> "none", value |-> file.data]
    ELSE [exc |-> "JSONDecodeError", value |-> <<>>]

\* a slip: merged["executed"][filename] = set(lines)
SetUpdate_assign(s, lines) == Range(lines)

\* a slip: merged["executed"][filename] ^= set(lines)
SetUpdate_toggle(s, lines) == (s \ Range(lines)) \cup (Range(lines) \ s)

\* merged["executed"][filename].update(lines)
SetUpdate(s, lines) == s \cup Range(lines)

RECURSIVE MergeItems_first_wins(_, _)
\* a slip: the update only happens inside "if filename not in merged"
MergeItems_first_wins(acc, items) ==
    IF items = <<>> THEN acc
    ELSE LET filename == Head(items)[1]
             lines == Head(items)[2]
             acc1 == IF ~DictHas(acc, filename)
                     THEN DictPut(acc, filename, Range(lines))
                     ELSE acc
         IN MergeItems_first_wins(acc1, Tail(items))

RECURSIVE MergeItems(_, _)
\* the inner loop: for filename, lines in data.get("executed", {}).items()
MergeItems(acc, items) ==
    IF items = <<>> THEN acc
    ELSE LET filename == Head(items)[1]
             lines == Head(items)[2]
             acc1 == IF ~DictHas(acc, filename)
                     THEN DictPut(acc, filename, {})
                     ELSE acc
             acc2 == DictPut(acc1, filename,
                             SetUpdate(DictGet(acc1, filename), lines))
         IN MergeItems(acc2, Tail(items))

RECURSIVE MergeFiles(_, _)
\* the outer loop: for path in json_files; an exception of _load_json leaves it
MergeFiles(acc, files) ==
    IF files = <<>> THEN [exc |-> "none", value |-> acc]
    ELSE LET loaded == _load_json(Head(files))
         IN IF loaded.exc # "none"
            THEN [exc |-> loaded.exc, value |-> acc]
            ELSE MergeFiles(
                    MergeItems(acc, DictGetOr(loaded.value, "executed", <<>>)),
                    Tail(files))

\* the last loop: every set becomes its sorted list
SortValues(d) == [i \in 1..Len(d) |-> <<d[i][1], sorted(d[i][2])>>]

\* a slip: the merged record carries the executable map of the first file
merge_coverage_data_with_executable(files) ==
    LET r == MergeFiles(<<>>, files)
    IN IF r.exc # "none"
       THEN [exc |-> r.exc, value |-> <<>>]
       ELSE [exc |-> "none",
             value |-> << <<"executed", SortValues(r.value)>>,
                          <<"executable",
                            IF files = <<>> THEN <<>>
                            ELSE DictGetOr(_load_json(files[1]).value,
                                           "executable", <<>>)>> >>]

merge_coverage_data(files) ==
    LET r == MergeFiles(<<>>, files)
    IN IF r.exc # "none"
       THEN [exc |-> r.exc, value |-> <<>>]
       ELSE [exc |-> "none",
             value |-> << <<"executed", SortValues(r.value)>> >>]

\* json.dumps: the keys in insertion order, every value in full
RECURSIVE json_dumps_items(_)
json_dumps_items(d) ==
    IF d = <<>> THEN <<>>
    ELSE <<d[1][1], ":", d[1][2]>>
         \o (IF Len(d) > 1 THEN <<",">> ELSE <<>>)
         \o json_dumps_items(Tail(d))

json_dumps(obj) ==
    <<"{">>
    \o json_dumps_items(
          [i \in 1..Len(obj) |->
              <<obj[i][1], <<"{">> \o json_dumps_items(obj[i][2]) \o <<"}">> >>])
    \o <<"}">>

----------------------------------------------------------------------------
(* The merge, applied to a list of stored record files *)

MergeInit ==
    /\ json_files \in SeqsUpTo(StoredFiles, MaxRecords)
    /\ merged = <<>>
    /\ merge_pc = "idle"

MergeCall ==
    /\ merge_pc = "idle"
    /\ LET r == merge_coverage_data(json_files)
       IN /\ merged' = r.value
          /\ merge_pc' = IF r.exc = "none" THEN "done" ELSE "raised"
    /\ UNCHANGED json_files

----------------------------------------------------------------------------
(* tracer.py: values *)

\* None, or a value that is not None
None == [is_none |-> TRUE, value |-> <<>>]
Some(v) == [is_none |-> FALSE, value |-> v]

\* File names and patterns are strings, modelled as sequences of characters
FoobarPy == <<"f", "o", "o", "b", "a", "r", ".", "p", "y">>
BarFooBazPy == <<"b", "a", "r", "_", "f", "o", "o", "_", "b", "a", "z", ".", "p", "y">>
MainPy == <<"m", "a", "i", "n", ".", "p", "y">>
MpyCoveragePy == <<"m", "p", "y", "_", "c", "o", "v", "e", "r", "a", "g", "e", ".", "p", "y">>
Foo == <<"f", "o", "o">>
Baz == <<"b", "a", "z">>
Main == <<"m", "a", "i", "n">>

\* the literal "mpy_coverage" of _should_trace
MpyCoverage == <<"m", "p", "y", "_", "c", "o", "v", "e", "r", "a", "g", "e">>

\* pattern in filename
Contains(filename, pattern) ==
    \E i \in 0..(Len(filename) - Len(pattern)) :
        SubSeq(filename, i + 1, i + Len(pattern)) = pattern

\* The code objects of the sample program
Codes == {"f", "g", "m", "cov"}

co_filename(code) ==
    CASE code = "f" -> FoobarPy
      [] code = "g" -> BarFooBazPy
      [] code = "m" -> MainPy
      [] code = "cov" -> MpyCoveragePy

co_firstlineno(code) ==
    CASE code = "f" -> 1
      [] code = "g" -> 4
      [] code = "m" -> 1
      [] code = "cov" -> 1

\* the lines a frame of the code can be at
CodeLines(code) ==
    CASE code = "f" -> {2, 3}
      [] code = "g" -> {5}
      [] code = "m" -> {1}
      [] code = "cov" -> {2}

\* code.co_lines(): the line numbers of its (start, end, line_no) entries, or
\* AttributeError where the runtime has no co_lines
co_lines(code) ==
    CASE code = "f" -> [exc |-> "none", value |-> {0, 2, 3}]
      [] code = "g" -> [exc |-> "AttributeError", value |-> {}]
      [] code = "m" -> [exc |-> "none", value |-> {1}]
      [] code = "cov" -> [exc |-> "none", value |-> {2}]

Frames(codes) ==
    UNION {{[f_code |-> c, f_lineno |-> l] : l \in CodeLines(c)} : c \in codes}

NoFrame == [f_code |-> "none", f_lineno |-> 0]

StartArgs(include, exclude, collect_executable, collect_arcs, test_script) ==
    [include |-> include, exclude |-> exclude,
     collect_executable |-> collect_executable, collect_arcs |-> collect_arcs,
     test_script |-> test_script]

\* start()'s defaults
DefaultArgs == StartArgs(None, None, FALSE, FALSE, None)

----------------------------------------------------------------------------
(* tracer.py: _should_trace, _local_trace, _global_trace, start, stop, get_data *)

\* a slip: every file is traced
_should_trace_all(filename) == TRUE

_should_trace(filename) ==
    IF Contains(filename, MpyCoverage) THEN FALSE
    ELSE IF ~_include.is_none
            /\ ~(\E k \in 1..Len(_include.value) : Contains(filename, _include.value[k]))
         THEN FALSE
    ELSE IF ~_exclude.is_none
            /\ (\E k \in 1..Len(_exclude.value) : Contains(filename, _exclude.value[k]))
         THEN FALSE
    ELSE TRUE

\* l[-1] and l.pop(): IndexError on an empty list
ListLast(l) ==
    IF l = <<>> THEN [exc |-> "IndexError", value |-> <<>>]
    ELSE [exc |-> "none", value |-> l[Len(l)]]

\* d[filename].add(x): KeyError when the key is missing
DictSetAdd(d, filename, x) ==
    IF ~DictHas(d, filename) THEN [exc |-> "KeyError", value |-> d]
    ELSE [exc |-> "none", value |-> DictPut(d, filename, DictGet(d, filename) \cup {x})]

\* if filename not in d: d[filename] = set()
DictEnsure(d, filename) ==
    IF ~DictHas(d, filename) THEN DictPut(d, filename, {}) ELSE d

\* a slip: the stack is used without looking whether it holds anything
StackNotEmpty_unchecked(stack) == TRUE

\* the truth value of _last_line_stack in "and _last_line_stack" / "if _last_line_stack"
StackNotEmpty(stack) == stack # <<>>

\* a slip: the arc goes to the event's file whatever file the entry is of
EntryInFile_unchecked(entry, filename) == TRUE

\* entry[1] is not None and entry[0] == filename (entry[1] is always a line)
EntryInFile(entry, filename) == entry[1] = filename

\* a slip: the exit arc ends at the first line itself, not at its negative
ExitArc_unmarked(entry, frame) == <<entry[2], co_firstlineno(frame.f_code)>>

\* (entry[1], -frame.f_code.co_firstlineno)
ExitArc(entry, frame) == <<entry[2], -co_firstlineno(frame.f_code)>>

\* What a hook leaves behind: the globals it writes, its return value and the
\* exception that left it (the statements before the raise have taken effect)
HookResult(executed, executable, arcs, stack, seen, ret, exc) ==
    [executed |-> executed, executable |-> executable, arcs |-> arcs,
     stack |-> stack, seen |-> seen, ret |-> ret, exc |-> exc]

Unchanged(ret) ==
    HookResult(_executed, _executable, _arcs, _last_line_stack, _seen_codes, ret, "none")

_local_trace(frame, ev) ==
    LET filename == co_filename(frame.f_code)
        lineno == frame.f_lineno
    IN
    IF ev = "line" THEN
        LET executed1 == DictEnsure(_executed, filename)
            executed2 == DictSetAdd(executed1, filename, lineno)
        IN
        IF executed2.exc # "none"
        THEN HookResult(executed1, _executable, _arcs, _last_line_stack,
                        _seen_codes, "raised", executed2.exc)
        ELSE IF _collect_arcs /\ StackNotEmpty(_last_line_stack) THEN
            LET entry == ListLast(_last_line_stack)
                arcs1 == DictEnsure(_arcs, filename)
                arcs2 == IF entry.exc = "none" /\ EntryInFile(entry.value, filename)
                         THEN DictSetAdd(arcs1, filename, <<entry.value[2], lineno>>)
                         ELSE [exc |-> "none", value |-> arcs1]
            IN
            IF entry.exc # "none"
            THEN HookResult(executed2.value, _executable, _arcs, _last_line_stack,
                            _seen_codes, "raised", entry.exc)
            ELSE IF arcs2.exc # "none"
            THEN HookResult(executed2.value, _executable, arcs1, _last_line_stack,
                            _seen_codes, "raised", arcs2.exc)
            ELSE HookResult(executed2.value, _executable, arcs2.value,
                            [_last_line_stack EXCEPT ![Len(_last_line_stack)] =
                                <<filename, lineno>>],
                            _seen_codes, "_local_trace", "none")
        ELSE HookResult(executed2.value, _executable, _arcs, _last_line_stack,
                        _seen_codes, "_local_trace", "none")
    ELSE IF ev = "return" /\ _collect_arcs THEN
        IF StackNotEmpty(_last_line_stack) THEN
            LET entry == ListLast(_last_line_stack)
                popped == SubSeq(_last_line_stack, 1, Len(_last_line_stack) - 1)
            IN
            IF entry.exc # "none"
            THEN HookResult(_executed, _executable, _arcs, _last_line_stack,
                            _seen_codes, "raised", entry.exc)
            ELSE IF EntryInFile(entry.value, filename)
            THEN LET arcs1 == DictEnsure(_arcs, filename)
                     arcs2 == DictSetAdd(arcs1, filename, ExitArc(entry.value, frame))
                 IN HookResult(_executed, _executable, arcs2.value, popped,
                               _seen_codes, "_local_trace", "none")
            ELSE HookResult(_executed, _executable, _arcs, popped,
                            _seen_codes, "_local_trace", "none")
        ELSE Unchanged("_local_trace")
    ELSE Unchanged("_local_trace")

\* the try block of _global_trace: co_lines() may raise, and what was added to
\* the set before stays
AddCoLines(executable, filename, code) ==
    LET lines == co_lines(code)
    IN IF lines.exc # "none"
       THEN [exc |-> lines.exc, value |-> executable]
       ELSE [exc |-> "none",
             value |-> DictPut(executable, filename,
                               DictGet(executable, filename)
                                 \cup {l \in lines.value : l > 0})]

\* except (AttributeError, TypeError): pass
Except(exc, caught) == IF exc \in caught THEN "none" ELSE exc

_global_trace(frame, ev) ==
    LET filename == co_filename(frame.f_code)
    IN
    IF ev = "call" THEN
        IF ~_should_trace(filename) THEN Unchanged("None")
        ELSE
            LET code_id == frame.f_code
                first == _collect_executable /\ code_id \notin _seen_codes
                seen1 == IF first THEN _seen_codes \cup {code_id} ELSE _seen_codes
                executable1 == IF first THEN DictEnsure(_executable, filename)
                               ELSE _executable
                executable2 == IF first THEN AddCoLines(executable1, filename, code_id)
                               ELSE [exc |-> "none", value |-> executable1]
                exc == Except(executable2.exc, {"AttributeError", "TypeError"})
                arcs1 == IF _collect_arcs
                         THEN DictSetAdd(DictEnsure(_arcs, filename), filename,
                                 <<-co_firstlineno(frame.f_code), frame.f_lineno>>).value
                         ELSE _arcs
                stack1 == IF _collect_arcs
                          THEN Append(_last_line_stack, <<filename, frame.f_lineno>>)
                          ELSE _last_line_stack
            IN
            IF exc # "none"
            THEN HookResult(_executed, executable2.value, _arcs, _last_line_stack,
                            seen1, "raised", exc)
            ELSE HookResult(_executed, executable2.value, arcs1, stack1, seen1,
                            "_local_trace", "none")
    ELSE Unchanged("None")

\* a slip: start() forgets _executed.clear()
start_keeps_executed(include, exclude, collect_executable, collect_arcs, test_script) ==
    /\ _executed' = _executed
    /\ _executable' = <<>>
    /\ _arcs' = <<>>
    /\ _last_line_stack' = <<>>
    /\ _seen_codes' = {}
    /\ _include' = include
    /\ _exclude' = exclude
    /\ _collect_executable' = collect_executable
    /\ _collect_arcs' = collect_arcs
    /\ _test_script' = test_script
    /\ settrace' = "_global_trace"

start(include, exclude, collect_executable, collect_arcs, test_script) ==
    /\ _executed' = <<>>
    /\ _executable' = <<>>
    /\ _arcs' = <<>>
    /\ _last_line_stack' = <<>>
    /\ _seen_codes' = {}
    /\ _include' = include
    /\ _exclude' = exclude
    /\ _collect_executable' = collect_executable
    /\ _collect_arcs' = collect_arcs
    /\ _test_script' = test_script
    /\ settrace' = "_global_trace"

stop ==
    /\ settrace' = "None"
    /\ UNCHANGED <<_executed, _executable, _arcs, _last_line_stack, _include,
                   _exclude, _collect_executable, _collect_arcs, _seen_codes,
                   _test_script>>

\* sorted(list(lines)) for every file
SortedLines(d) == [i \in 1..Len(d) |-> <<d[i][1], sorted(d[i][2])>>]

ArcLess(a, b) == a[1] < b[1] \/ (a[1] = b[1] /\ a[2] <= b[2])

RECURSIVE sorted_arcs(_)
\* sorted([list(a) for a in arcs])
sorted_arcs(S) ==
    IF S = {} THEN <<>>
    ELSE LET m == CHOOSE a \in S : \A b \in S : ArcLess(a, b)
         IN <<m>> \o sorted_arcs(S \ {m})

get_data ==
    << <<"executed", SortedLines(_executed)>> >>
    \o (IF ~_test_script.is_none
        THEN << <<"_metadata", << <<"test_script", _test_script.value>> >> >> >>
        ELSE <<>>)
    \o (IF _collect_executable
        THEN << <<"executable", SortedLines(_executable)>> >>
        ELSE <<>>)
    \o (IF _collect_arcs
        THEN << <<"arcs", [i \in 1..Len(_arcs) |->
                              <<_arcs[i][1], sorted_arcs(_arcs[i][2])>>]>> >>
        ELSE <<>>)

----------------------------------------------------------------------------
(* The tracer in its surroundings *)

\* the module as imported: lines 6-15, and no hook installed
TracerInit ==
    /\ _executed = <<>>
    /\ _executable = <<>>
    /\ _arcs = <<>>
    /\ _last_line_stack = <<>>
    /\ _include = None
    /\ _exclude = None
    /\ _collect_executable = FALSE
    /\ _collect_arcs = FALSE
    /\ _seen_codes = {}
    /\ _test_script = None
    /\ settrace = "None"
    /\ event = [op |-> "import", frame |-> NoFrame, args |-> DefaultArgs]
    /\ hook_ret = "None"
    /\ hook_exc = "none"
    /\ observed = {}
    /\ discarded = {}
    /\ nEvents = 0

MergeIdle ==
    /\ json_files = <<>>
    /\ merged = <<>>
    /\ merge_pc = "idle"

DecoderIdle ==
    /\ py_files = <<>>
    /\ mpy_cross = "present"
    /\ decoder_result = <<>>
    /\ decoder_warnings = <<>>
    /\ decoder_pc = "idle"

\* what a subcommand returned: its exit status, or the exception that left it
Returned(status) == [pc |-> "returned", status |-> status, exc |-> "none"]
Raised(exc) == [pc |-> "raised", status |-> 1, exc |-> exc]
NotCalled == [pc |-> "idle", status |-> 0, exc |-> "none"]

CmdIdle == cmd_ret = NotCalled

\* run_report's defaults, and no call of it yet
ReportIdle ==
    /\ report_args = [cov_data |-> <<>>, method |-> "auto", source_root |-> None,
                      path_maps |-> <<>>, mpy_cross |-> "present"]
    /\ report = <<>>
    /\ report_pc = "idle"

PathMapIdle ==
    /\ filenames = <<>>
    /\ path_maps = <<>>
    /\ source_paths = <<>>

TestMapIdle ==
    /\ data_dir = <<>>
    /\ line_detail = FALSE
    /\ rows = <<>>
    /\ test_map_ret = NotCalled

\* an extraction's outcome: not run yet, the value returned, or the exception
NotExtracted == [exc |-> "idle", value |-> None]

ExportIdle ==
    /\ capture = <<>>
    /\ stdout = <<>>
    /\ target_pc = "running"
    /\ extracted = NotExtracted
    /\ load_ret = NotExtracted

RunIdle ==
    /\ cwd_files = {}
    /\ store = <<>>
    /\ clock = 0
    /\ run_call = <<>>
    /\ run_ret = NotCalled
    /\ runs = 0
    /\ succeeded = 0

NoProcs == procs = <<>>

\* no run subcommand has run
RunSideIdle ==
    /\ ExportIdle
    /\ RunIdle
    /\ NoProcs

TableIdle ==
    /\ unit = <<>>
    /\ decoded_lines = {}
    /\ decoded = FALSE

\* no frame of the traced program is active
ProgramIdle ==
    /\ call_stack = <<>>
    /\ nStarts = 0

\* no host tool has run
HostIdle ==
    /\ MergeIdle
    /\ DecoderIdle
    /\ ReportIdle
    /\ CmdIdle
    /\ PathMapIdle
    /\ TestMapIdle
    /\ RunSideIdle
    /\ TableIdle
    /\ ProgramIdle

\* the <<filename, line>> pairs of a dict filename -> set of lines
LinesOf(d) == UNION {{<<d[i][1], l>> : l \in d[i][2]} : i \in 1..Len(d)}

\* the program (or its wrapper) calls start(**args)
StartCall(args) ==
    /\ nEvents < MaxEvents
    /\ start(args.include, args.exclude, args.collect_executable,
             args.collect_arcs, args.test_script)
    /\ event' = [op |-> "start", frame |-> NoFrame, args |-> args]
    /\ observed' = {}
    /\ discarded' = LinesOf(_executed)
    /\ nEvents' = nEvents + 1
    /\ UNCHANGED <<hook_ret, hook_exc>>

StopCall ==
    /\ nEvents < MaxEvents
    /\ stop
    /\ event' = [op |-> "stop", frame |-> NoFrame, args |-> DefaultArgs]
    /\ nEvents' = nEvents + 1
    /\ UNCHANGED <<hook_ret, hook_exc, observed, discarded>>

\* the runtime gives an event of a frame to the installed hook: a call event
\* to the global hook, a line or return event to the local one
HookEvent(frame, ev) ==
    /\ nEvents < MaxEvents
    /\ settrace = "_global_trace"
    /\ hook_exc = "none"
    /\ LET r == IF ev = "call" THEN _global_trace(frame, ev)
                ELSE _local_trace(frame, ev)
       IN /\ _executed' = r.executed
          /\ _executable' = r.executable
          /\ _arcs' = r.arcs
          /\ _last_line_stack' = r.stack
          /\ _seen_codes' = r.seen
          /\ hook_ret' = r.ret
          /\ hook_exc' = r.exc
    /\ event' = [op |-> ev, frame |-> frame, args |-> DefaultArgs]
    /\ observed' = IF ev = "line"
                   THEN observed \cup {<<co_filename(frame.f_code), frame.f_lineno>>}
                   ELSE observed
    /\ nEvents' = nEvents + 1
    /\ UNCHANGED <<_include, _exclude, _collect_executable, _collect_arcs,
                   _test_script, settrace, discarded>>

\* The hook under any sequence of events
HookCodes == {"f", "g", "cov"}

HookArgs ==
    {DefaultArgs,
     StartArgs(None, None, TRUE, TRUE, Some("t")),
     StartArgs(Some(<<Foo>>), Some(<<Main>>), FALSE, TRUE, None)}

HookInit == TracerInit /\ HostIdle

HookStart == \E args \in HookArgs : StartCall(args) /\ UNCHANGED hostVars

HookStop == StopCall /\ UNCHANGED hostVars

HookCall == \E frame \in Frames(HookCodes) : HookEvent(frame, "call") /\ UNCHANGED hostVars

HookLine == \E frame \in Frames(HookCodes) : HookEvent(frame, "line") /\ UNCHANGED hostVars

HookReturn == \E frame \in Frames(HookCodes) : HookEvent(frame, "return") /\ UNCHANGED hostVars

HookNext == HookStart \/ HookStop \/ HookCall \/ HookLine \/ HookReturn

SpecHook == HookInit /\ [][HookNext]_vars

\* The filter under any configuration
PatternLists == SeqsUpTo({Foo, Baz, Main}, MaxPatterns)

FilterArgs ==
    {StartArgs(inc, exc, FALSE, FALSE, None) :
        inc \in {None} \cup {Some(l) : l \in PatternLists},
        exc \in {None} \cup {Some(l) : l \in PatternLists}}

FilterInit == TracerInit /\ HostIdle

FilterStart == \E args \in FilterArgs : StartCall(args) /\ UNCHANGED hostVars

FilterCall == \E frame \in Frames(Codes) : HookEvent(frame, "call") /\ UNCHANGED hostVars

FilterNext == FilterStart \/ FilterCall

SpecFilter == FilterInit /\ [][FilterNext]_vars

\* The merge of any list of stored record files
MergeRun ==
    MergeCall
        /\ UNCHANGED <<tracerVars, decoderVars, reportVars, cmd_ret, pathVars, testMapVars,
                       runSideVars, tableVars, programVars>>

SpecMergeInit ==
    /\ MergeInit
    /\ TracerInit
    /\ DecoderIdle
    /\ ReportIdle
    /\ CmdIdle
    /\ PathMapIdle
    /\ TestMapIdle
    /\ RunSideIdle
    /\ TableIdle
    /\ ProgramIdle

SpecMerge == SpecMergeInit /\ [][MergeRun]_vars

----------------------------------------------------------------------------
(* Properties of the merge *)

Executed(data) == DictGetOr(data, "executed", <<>>)

\* the files of the executed maps of the input records
InputFiles(files) ==
    UNION {Range(DictKeys(Executed(files[i].data))) : i \in 1..Len(files)}

\* the union of a file's executed lines over the input records
InputLines(files, f) ==
    UNION {Range(DictGetOr(Executed(files[i].data), f, <<>>)) : i \in 1..Len(files)}

StrictlyAscending(l) == \A i \in 1..(Len(l) - 1) : l[i] < l[i + 1]

\* a merged record as the per-file sets of its executed lines
ExecSets(m) ==
    LET ex == Executed(m)
    IN [f \in Range(DictKeys(ex)) |-> Range(DictGet(ex, f))]

\* m1 == m2 for two records (dicts of dicts)
RecordEq(m1, m2) ==
    /\ Range(DictKeys(m1)) = Range(DictKeys(m2))
    /\ \A k \in Range(DictKeys(m1)) : DictEq(DictGet(m1, k), DictGet(m2, k))

Reorderings(s) ==
    {[i \in 1..Len(s) |-> s[p[i]]] : p \in Permutations(1..Len(s))}

InsertAt(s, pos, x) == SubSeq(s, 1, pos) \o <<x>> \o SubSeq(s, pos + 1, Len(s))
RemoveAt(s, i) == SubSeq(s, 1, i - 1) \o SubSeq(s, i + 1, Len(s))

\* C1: the merged executed map has exactly the files of the inputs, each with
\* the union of its executed lines over all inputs, as a strictly ascending
\* list without duplicates.
C1_MergeUnion ==
    merge_pc = "done" =>
        LET ex == Executed(merged)
        IN /\ DictHas(merged, "executed")
           /\ Range(DictKeys(ex)) = InputFiles(json_files)
           /\ Cardinality(Range(DictKeys(ex))) = Len(ex)
           /\ \A i \in 1..Len(ex) :
                /\ Range(ex[i][2]) = InputLines(json_files, ex[i][1])
                /\ StrictlyAscending(ex[i][2])

\* two records cover different lines of the same file and the merge has both
C1_Witness ==
    /\ merge_pc = "done"
    /\ Len(json_files) = 2
    /\ Executed(json_files[1].data) = << <<FooPy, <<1>> >> >>
    /\ Executed(json_files[2].data) = << <<FooPy, <<2>> >> >>
    /\ Executed(merged) = << <<FooPy, <<1, 2>> >> >>

\* C2 (as claimed): the merged record holds, per file, the union of the arcs of
\* all input records.
C2_ArcsMerged ==
    merge_pc = "done" =>
        \A i \in 1..Len(json_files) :
            LET arcs == DictGetOr(json_files[i].data, "arcs", <<>>)
            IN \A k \in 1..Len(arcs) :
                /\ DictHas(merged, "arcs")
                /\ DictHas(DictGet(merged, "arcs"), arcs[k][1])
                /\ Range(arcs[k][2])
                      \subseteq Range(DictGet(DictGet(merged, "arcs"), arcs[k][1]))

\* C3: the per-file executed sets are the same for every reordering of the
\* input list, and the same when any sub-list is replaced by its own merge.
C3_MergeCommAssoc ==
    merge_pc = "done" =>
        /\ \A p \in Reorderings(json_files) :
              LET r == merge_coverage_data(p)
              IN r.exc = "none" /\ ExecSets(r.value) = ExecSets(merged)
        /\ \A i \in 1..Len(json_files) : \A j \in i..Len(json_files) :
              LET sub == merge_coverage_data(SubSeq(json_files, i, j))
                  r == merge_coverage_data(
                          SubSeq(json_files, 1, i - 1)
                          \o <<StoredFile(sub.value)>>
                          \o SubSeq(json_files, j + 1, Len(json_files)))
              IN /\ sub.exc = "none"
                 /\ r.exc = "none"
                 /\ ExecSets(r.value) = ExecSets(merged)

\* two different records of the same file were merged
C3_Witness ==
    /\ merge_pc = "done"
    /\ Len(json_files) >= 2
    /\ \E f \in RecordFileNames :
          /\ DictHas(Executed(json_files[1].data), f)
          /\ DictHas(Executed(json_files[2].data), f)
          /\ DictGet(Executed(json_files[1].data), f)
                # DictGet(Executed(json_files[2].data), f)

\* C4: repeating a record of the input list, at any place, does not change the
\* merged record, and neither does dropping one of two equal records;
\* merge([R, R]) == merge([R]).
C4_MergeIdempotent ==
    merge_pc = "done" =>
        /\ \A i \in 1..Len(json_files) : \A pos \in 0..Len(json_files) :
              LET r == merge_coverage_data(InsertAt(json_files, pos, json_files[i]))
              IN r.exc = "none" /\ RecordEq(r.value, merged)
        /\ \A i \in 1..Len(json_files) : \A j \in 1..Len(json_files) :
              (i # j /\ json_files[i] = json_files[j]) =>
                  LET r == merge_coverage_data(RemoveAt(json_files, j))
                  IN r.exc = "none" /\ RecordEq(r.value, merged)

\* merge([R, R]) has returned, R covering some line
C4_Witness ==
    /\ merge_pc = "done"
    /\ Len(json_files) = 2
    /\ json_files[1] = json_files[2]
    /\ Executed(merged) # <<>>

\* C5 (as claimed): the serialized merged record is the same for every
\* ordering of the same records.
C5_MergeDeterministic ==
    merge_pc = "done" =>
        \A p \in Reorderings(json_files) :
            json_dumps(merge_coverage_data(p).value) = json_dumps(merged)

Parseable(files) == SelectSeq(files, LAMBDA file : file.parseable)

\* C6 (as claimed): with a record that does not parse in the list, the merge
\* still returns, with the merge of the records that parse.
C6_MalformedSkipped ==
    (merge_pc # "idle" /\ \E i \in 1..Len(json_files) : ~json_files[i].parseable) =>
        /\ merge_pc = "done"
        /\ RecordEq(merged, merge_coverage_data(Parseable(json_files)).value)

----------------------------------------------------------------------------
(* Properties of the tracer *)

IsTracerModule(filename) == filename = MpyCoveragePy

NoPatterns(option) == option.is_none \/ option.value = <<>>

SomePatternIn(option, filename) ==
    /\ ~option.is_none
    /\ \E k \in 1..Len(option.value) : Contains(filename, option.value[k])

\* C7 (as claimed): a call is accepted exactly when the file is not the
\* tracer's own module, and there are no include patterns or one of them is a
\* substring of the path, and no exclude pattern is a substring of the path.
C7_FilterAcceptance ==
    event.op = "call" =>
        LET filename == co_filename(event.frame.f_code)
        IN (hook_ret = "_local_trace") <=>
              /\ ~IsTracerModule(filename)
              /\ (NoPatterns(_include) \/ SomePatternIn(_include, filename))
              /\ ~SomePatternIn(_exclude, filename)

\* C8: no exception leaves the hook, whatever events it is given.
C8_HookNeverRaises == hook_exc = "none"

\* start() ran again in the middle of a traced call, and the return event of
\* that call arrived with arc collection on and nothing on the stack (no call
\* was seen since start(): a call would have left an entry arc)
C8_Witness ==
    /\ event.op = "return"
    /\ discarded # {}
    /\ _collect_arcs
    /\ _arcs = <<>>
    /\ _last_line_stack = <<>>
    /\ hook_ret = "_local_trace"

\* the lines of the record get_data() exports
ExportedLines ==
    LET ex == DictGet(get_data, "executed")
    IN UNION {{<<ex[i][1], l>> : l \in Range(ex[i][2])} : i \in 1..Len(ex)}

\* C9: right after start() everything accumulated is empty and the filter and
\* flags are those of this start(); the exported record holds only lines of
\* line events seen since the most recent start().
C9_StartResets ==
    /\ event.op = "start" =>
          /\ _executed = <<>>
          /\ _executable = <<>>
          /\ _arcs = <<>>
          /\ _last_line_stack = <<>>
          /\ _seen_codes = {}
          /\ _include = event.args.include
          /\ _exclude = event.args.exclude
          /\ _collect_executable = event.args.collect_executable
          /\ _collect_arcs = event.args.collect_arcs
          /\ _test_script = event.args.test_script
          /\ settrace = "_global_trace"
    /\ ExportedLines \subseteq observed

\* start() ran while lines of an earlier start() were held and the hook was
\* still installed
C9_Witness ==
    /\ event.op = "start"
    /\ discarded # {}
    /\ nEvents >= 3

ArcsOfFile(arcs, filename) == DictGetOr(arcs, filename, {})

StackTop == _last_line_stack[Len(_last_line_stack)]

\* every recorded arc has nonzero endpoints, at most one of them negative, and
\* a negative endpoint is minus the first line of a callable of the file
ArcsWellFormed ==
    \A i \in 1..Len(_arcs) : \A a \in _arcs[i][2] :
        /\ a[1] # 0 /\ a[2] # 0
        /\ a[1] > 0 \/ a[2] > 0
        /\ \A k \in {1, 2} :
              a[k] < 0 => \E c \in Codes : /\ co_filename(c) = _arcs[i][1]
                                           /\ co_firstlineno(c) = -a[k]

\* an arc is added under a file only by an event of that file: by a call as
\* (-first line, line), by a line event as (last line, line) and by a return
\* as (last line, -first line), the last two only when the top of the stack,
\* the previous position, is of that file
ArcRecorded ==
    \A c \in Codes :
        LET filename == co_filename(c)
        IN \A a \in ArcsOfFile(_arcs', filename) \ ArcsOfFile(_arcs, filename) :
            LET frame == event'.frame
                first == co_firstlineno(frame.f_code)
            IN /\ event'.op \in {"call", "line", "return"}
               /\ co_filename(frame.f_code) = filename
               /\ event'.op = "call" => a = <<-first, frame.f_lineno>>
               /\ event'.op \in {"line", "return"} =>
                     /\ _last_line_stack # <<>>
                     /\ StackTop[1] = filename
                     /\ StackTop[2] > 0
               /\ event'.op = "line" => a = <<StackTop[2], frame.f_lineno>>
               /\ event'.op = "return" => a = <<StackTop[2], -first>>

\* C10: every recorded arc is well-formed, and an arc is recorded under a file
\* only when the previous position and the current event are both of that file.
C10_ArcsWellFormed == []ArcsWellFormed /\ [][ArcRecorded]_vars

\* one call of f left its entry, interior and exit arc; then a line event of
\* another file met f's position on the stack, and its arc was dropped
C10_Witness ==
    /\ _collect_arcs
    /\ {<<-1, 2>>, <<2, 3>>, <<3, -1>>} \subseteq ArcsOfFile(_arcs, FoobarPy)
    /\ DictHas(_arcs, BarFooBazPy)
    /\ ArcsOfFile(_arcs, BarFooBazPy) = {}
    /\ event.op = "line"

\* the "executable" map of the record get_data() exports
ExportedExecutable == DictGetOr(get_data, "executable", <<>>)

\* C11: with executable-line collection enabled, a file whose accepted code
\* exposes no line-table data (co_lines is missing) is not exported in the
\* executable map with an empty line list.
C11_UnavailableNotEmpty ==
    \A c \in HookCodes :
        (/\ _collect_executable
         /\ c \in _seen_codes
         /\ co_lines(c).exc # "none")
        => ~(/\ DictHas(ExportedExecutable, co_filename(c))
             /\ DictGet(ExportedExecutable, co_filename(c)) = <<>>)

----------------------------------------------------------------------------
(* mpy_analysis.py: the host's file system and compiler *)

\* Paths are strings, modelled as sequences of characters
Slash == "/"
Cwd == <<"/", "w">>
SimplePy == <<"/", "s", "/", "a", ".", "p", "y">>
NestedPy == <<"/", "s", "/", "n", ".", "p", "y">>
ModulePy == <<"m", ".", "p", "y">>
EmptyPy == <<"/", "s", "/", "e", ".", "p", "y">>
SyntaxErrorPy == <<"/", "s", "/", "x", ".", "p", "y">>
SlowPy == <<"/", "s", "/", "t", ".", "p", "y">>
CorruptPy == <<"/", "s", "/", "c", ".", "p", "y">>
Latin1Py == <<"/", "s", "/", "u", ".", "p", "y">>
GonePy == <<"/", "s", "/", "g", ".", "p", "y">>

os_path_isabs(path) == path # <<>> /\ path[1] = Slash

os_path_join(root, path) ==
    IF os_path_isabs(path) THEN path ELSE root \o <<Slash>> \o path

os_path_abspath(path) == os_path_join(Cwd, path)

\* A compiled unit: its line table, a list of (bc_increment, line_increment)
\* entries (None where the unit has no fun_data), and its nested units
RawCode(line_info, children) == [fun_data |-> line_info, children |-> children]

\* def add(a, b): / return a + b / / def subtract(a, b): / return a - b
SimpleRawCode ==
    RawCode(Some(<< <<0, 0>> >>),
            << RawCode(Some(<< <<0, 1>> >>), <<>>),
               RawCode(Some(<< <<0, 4>>, <<0, 0>> >>), <<>>) >>)

\* def outer(): / x = 1 / def inner(): / return x / return inner()
NestedRawCode ==
    RawCode(Some(<<>>),
            << RawCode(Some(<< <<0, 1>>, <<2, 3>> >>),
                       << RawCode(Some(<< <<0, 3>> >>), <<>>) >>) >>)

\* X = 1 / Y = 2 / / def f(): / return X + Y, with a unit that has no line table
ModuleRawCode ==
    RawCode(Some(<< <<2, 0>>, <<2, 1>> >>),
            << RawCode(Some(<< <<0, 4>> >>), <<>>), RawCode(None, <<>>) >>)

EmptyRawCode == RawCode(Some(<<>>), <<>>)

\* # caf\xe9 / def h(): / pass
Latin1RawCode == RawCode(Some(<<>>), << RawCode(Some(<< <<0, 2>> >>), <<>>) >>)

\* A source file of the host: what mpy-cross does with it ("ok", "nonzero"
\* exit or "timeout"), what mpy_tool.read_mpy makes of the compiled file (a
\* RawCode tree, or None where it cannot be parsed), whether open() and
\* ast.parse read it, and the declaration lines of its def, async def and
\* class statements
SourceFile(compile, raw_code, ast_ok, defs) ==
    [compile |-> compile, raw_code |-> raw_code, ast_ok |-> ast_ok, defs |-> defs]

Sources ==
    << <<SimplePy, SourceFile("ok", Some(SimpleRawCode), TRUE, {1, 4})>>,
       <<NestedPy, SourceFile("ok", Some(NestedRawCode), TRUE, {1, 3})>>,
       <<os_path_abspath(ModulePy), SourceFile("ok", Some(ModuleRawCode), TRUE, {4})>>,
       <<EmptyPy, SourceFile("ok", Some(EmptyRawCode), TRUE, {})>>,
       <<SyntaxErrorPy, SourceFile("nonzero", None, FALSE, {})>>,
       <<SlowPy, SourceFile("timeout", None, TRUE, {1})>>,
       <<CorruptPy, SourceFile("ok", None, TRUE, {1})>>,
       <<Latin1Py, SourceFile("ok", Some(Latin1RawCode), FALSE, {2})>> >>

os_path_exists(path) == DictHas(Sources, os_path_abspath(path))

SourceAt(path) == DictGet(Sources, os_path_abspath(path))

\* the paths a batch is drawn from
BatchPaths ==
    {SimplePy, NestedPy, ModulePy, EmptyPy, SyntaxErrorPy, SlowPy, CorruptPy,
     Latin1Py, GonePy}

----------------------------------------------------------------------------
(* mpy_analysis.py: _extract_lines_from_raw_code, _compile_to_mpy,           *)
(* get_executable_lines                                                      *)

\* rc.decode_lineinfo(line_info): the first entry's two increments and the
\* rest of the table
decode_lineinfo(line_info) ==
    <<Head(line_info)[1], Head(line_info)[2], Tail(line_info)>>

\* a slip: a line is recorded only where the bytecode position advances
RecordsLine_bc_only(bc_increment, line_increment, source_line) ==
    bc_increment > 0 /\ source_line > 0

\* (bc_increment > 0 or line_increment > 0) and source_line > 0
RecordsLine(bc_increment, line_increment, source_line) ==
    (bc_increment > 0 \/ line_increment > 0) /\ source_line > 0

RECURSIVE DecodeLineInfo(_, _, _)
\* the while loop over one unit's table
DecodeLineInfo(line_info, source_line, lines) ==
    IF line_info = <<>> THEN lines
    ELSE LET d == decode_lineinfo(line_info)
             source_line1 == source_line + d[2]
         IN DecodeLineInfo(d[3], source_line1,
                IF RecordsLine(d[1], d[2], source_line1)
                THEN lines \cup {source_line1} ELSE lines)

RECURSIVE _extract_lines_from_raw_code(_, _)
RECURSIVE ExtractChildren(_, _)
_extract_lines_from_raw_code(rc, lines) ==
    LET lines1 == IF rc.fun_data.is_none THEN lines   \* AttributeError: pass
                  ELSE DecodeLineInfo(rc.fun_data.value, 1, lines)
    IN ExtractChildren(rc.children, lines1)

\* for child in rc.children
ExtractChildren(children, lines) ==
    IF children = <<>> THEN lines
    ELSE ExtractChildren(Tail(children),
                         _extract_lines_from_raw_code(Head(children), lines))

\* the exception _compile_to_mpy leaves with, "none" if the compiler ran and
\* exited with 0
_compile_to_mpy(py_file, mpy_cross_bin) ==
    IF mpy_cross_bin = "absent"
    THEN [exc |-> "RuntimeError", msg |-> "mpy-cross binary not found"]
    ELSE IF SourceAt(py_file).compile = "timeout"
    THEN [exc |-> "RuntimeError", msg |-> "timed out"]
    ELSE IF SourceAt(py_file).compile # "ok"
    THEN [exc |-> "RuntimeError", msg |-> "compilation failed"]
    ELSE [exc |-> "none", msg |-> ""]

\* mpy_tool.read_mpy(temp_mpy_path)
read_mpy(py_file) ==
    IF SourceAt(py_file).raw_code.is_none
    THEN [exc |-> "MPYReadError", value |-> None]
    ELSE [exc |-> "none", value |-> SourceAt(py_file).raw_code.value]

\* the AST patch-up: the lines of the FunctionDef, AsyncFunctionDef and
\* ClassDef nodes of ast.walk, none when open() or ast.parse raises (a warning
\* is printed)
DefLines(py_file) ==
    IF SourceAt(py_file).ast_ok THEN SourceAt(py_file).defs ELSE {}

\* the inner try block for one existing file: compile, parse, extract, patch
AnalyzeFile(py_file, mpy_cross_bin) ==
    LET compiled == _compile_to_mpy(py_file, mpy_cross_bin)
        compiled_module == read_mpy(py_file)
    IN IF compiled.exc # "none" THEN [exc |-> compiled.exc, lines |-> {}]
       ELSE IF compiled_module.exc # "none"
       THEN [exc |-> compiled_module.exc, lines |-> {}]
       ELSE [exc |-> "none",
             lines |-> _extract_lines_from_raw_code(compiled_module.value, {})
                         \cup DefLines(py_file)]

\* a slip: the handler lets the exception leave the call
CaughtException_reraise(st, py_file, exc) ==
    [st EXCEPT !.exc = exc]

\* except Exception as e: print a warning, continue
CaughtException(st, py_file, exc) ==
    [st EXCEPT !.warnings = Append(@, py_file)]

RECURSIVE AnalyzeFiles(_, _, _)
\* for py_file in py_files
AnalyzeFiles(files, mpy_cross_bin, st) ==
    IF files = <<>> \/ st.exc # "none" THEN st
    ELSE LET py_file == os_path_join(Cwd, Head(files))
             r == AnalyzeFile(py_file, mpy_cross_bin)
         IN AnalyzeFiles(Tail(files), mpy_cross_bin,
                IF ~os_path_exists(py_file)
                THEN [st EXCEPT !.warnings = Append(@, py_file)]
                ELSE IF r.exc # "none" THEN CaughtException(st, py_file, r.exc)
                ELSE [st EXCEPT !.result = DictPut(@, py_file, r.lines)])

get_executable_lines(files, mpy_cross_bin) ==
    AnalyzeFiles(files, mpy_cross_bin,
                 [exc |-> "none", result |-> <<>>, warnings |-> <<>>])

\* any batch, with or without the compiler
DecoderInit ==
    /\ py_files \in SeqsUpTo(BatchPaths, MaxBatch)
    /\ mpy_cross \in {"present", "absent"}
    /\ decoder_result = <<>>
    /\ decoder_warnings = <<>>
    /\ decoder_pc = "idle"

DecoderCall ==
    /\ decoder_pc = "idle"
    /\ LET r == get_executable_lines(py_files, mpy_cross)
       IN /\ decoder_result' = r.result
          /\ decoder_warnings' = r.warnings
          /\ decoder_pc' = IF r.exc = "none" THEN "done" ELSE "raised"
    /\ UNCHANGED <<py_files, mpy_cross>>

DecoderRun ==
    DecoderCall
        /\ UNCHANGED <<tracerVars, mergeVars, reportVars, cmd_ret, pathVars, testMapVars,
                       runSideVars, tableVars, programVars>>

SpecDecoderInit ==
    /\ DecoderInit
    /\ TracerInit
    /\ MergeIdle
    /\ ReportIdle
    /\ CmdIdle
    /\ PathMapIdle
    /\ TestMapIdle
    /\ RunSideIdle
    /\ TableIdle
    /\ ProgramIdle

SpecDecoder == SpecDecoderInit /\ [][DecoderRun]_vars

----------------------------------------------------------------------------
(* Properties of the decoder pathway *)

\* the files of the batch as get_executable_lines names them
BatchFiles == {os_path_join(Cwd, py_files[i]) : i \in 1..Len(py_files)}

\* C12: every file get_executable_lines returns a result for has, in that
\* result, the declaration line of every function, async function and class
\* definition of the file, and the lines decoded from its line tables.
C12_DeclarationLines ==
    decoder_pc = "done" =>
        \A i \in 1..Len(decoder_result) :
            LET py_file == decoder_result[i][1]
            IN /\ SourceAt(py_file).defs \subseteq decoder_result[i][2]
               /\ _extract_lines_from_raw_code(SourceAt(py_file).raw_code.value, {})
                     \subseteq decoder_result[i][2]

\* nonzero compiler exit, timeout, or unparseable compiled output
CompilationFails(py_file) ==
    \/ SourceAt(py_file).compile # "ok"
    \/ SourceAt(py_file).raw_code.is_none

\* the result of the file in the batch is the result of the file alone
SameAsAlone(py_file) ==
    LET alone == get_executable_lines(<<py_file>>, mpy_cross).result
    IN /\ DictHas(decoder_result, py_file) = DictHas(alone, py_file)
       /\ DictHas(alone, py_file) =>
             DictGet(decoder_result, py_file) = DictGet(alone, py_file)

C14_ToolMissingFailsFast ==
    (/\ mpy_cross = "absent"
     /\ \E py_file \in BatchFiles : os_path_exists(py_file)
     /\ decoder_pc # "idle")
    => decoder_pc = "raised"

----------------------------------------------------------------------------
(* report.py: _apply_path_map *)

Equals == "="

\* "=" in mapping
HasEquals(mapping) == \E i \in 1..Len(mapping) : mapping[i] = Equals

\* mapping.split("=", 1): the text before the first "=" and the text after it
Split1(mapping) ==
    LET i == CHOOSE k \in 1..Len(mapping) :
                 /\ mapping[k] = Equals
                 /\ \A j \in 1..(k - 1) : mapping[j] # Equals
    IN <<SubSeq(mapping, 1, i - 1), SubSeq(mapping, i + 1, Len(mapping))>>

\* filename.startswith(prefix)
startswith(filename, prefix) ==
    /\ Len(prefix) <= Len(filename)
    /\ SubSeq(filename, 1, Len(prefix)) = prefix

\* a slip: no break, the last matching rule wins
ResolvePath_last_match(filename, mappings) ==
    LET matching == {i \in 1..Len(mappings) :
                        /\ HasEquals(mappings[i])
                        /\ startswith(filename, Split1(mappings[i])[1])}
        last == CHOOSE i \in matching : \A j \in matching : j <= i
    IN IF matching = {} THEN filename
       ELSE Split1(mappings[last])[2]
              \o SubSeq(filename, Len(Split1(mappings[last])[1]) + 1, Len(filename))

RECURSIVE ResolvePath(_, _)
\* the inner loop: for mapping in path_maps
ResolvePath(filename, mappings) ==
    IF mappings = <<>> THEN filename
    ELSE IF ~HasEquals(Head(mappings)) THEN ResolvePath(filename, Tail(mappings))
    ELSE LET device_prefix == Split1(Head(mappings))[1]
             host_prefix == Split1(Head(mappings))[2]
         IN IF startswith(filename, device_prefix)
            THEN host_prefix \o SubSeq(filename, Len(device_prefix) + 1, Len(filename))
            ELSE ResolvePath(filename, Tail(mappings))

RECURSIVE ApplyPathMap(_, _, _)
ApplyPathMap(names, mappings, paths) ==
    IF names = <<>> THEN paths
    ELSE ApplyPathMap(Tail(names), mappings,
                      DictPut(paths, Head(names), ResolvePath(Head(names), mappings)))

_apply_path_map(names, mappings) == ApplyPathMap(names, mappings, <<>>)

----------------------------------------------------------------------------
(* report.py: the three pathways and run_report *)

\* PythonParser(filename=source_path).statements of coverage.py, None where
\* parse_source raises
ParserStatements(source_path) ==
    LET path == os_path_abspath(source_path)
    IN CASE path = SimplePy -> Some({1, 2, 4, 5})
         [] path = NestedPy -> Some({1, 2, 3, 4, 5})
         [] path = os_path_abspath(ModulePy) -> Some({1, 2, 4, 5})
         [] path = EmptyPy -> Some({})
         [] path = SlowPy -> Some({1, 2})
         [] path = CorruptPy -> Some({1, 2})
         [] OTHER -> None

\* Pathway A: {f: set(lines) for f, lines in cov_data.get("executable", {}).items()}
_resolve_executable_lines_co_lines(cov_data) ==
    LET executable == DictGetOr(cov_data, "executable", <<>>)
    IN [i \in 1..Len(executable) |-> <<executable[i][1], Range(executable[i][2])>>]

RECURSIVE ResolveAst(_, _, _)
ResolveAst(names, paths, result) ==
    IF names = <<>> THEN result
    ELSE LET filename == Head(names)
             source_path == DictGetOr(paths, filename, filename)
         IN ResolveAst(Tail(names), paths,
                IF ~os_path_exists(source_path) THEN result
                ELSE IF ParserStatements(source_path).is_none THEN result
                ELSE DictPut(result, filename, ParserStatements(source_path).value))

\* Pathway B1
_resolve_executable_lines_ast(names, paths) == ResolveAst(names, paths, <<>>)

RECURSIVE MpyBatch(_, _, _)
\* the first loop of pathway B2: py_files and file_map
MpyBatch(names, paths, batch) ==
    IF names = <<>> THEN batch
    ELSE LET filename == Head(names)
             source_path == DictGetOr(paths, filename, filename)
         IN MpyBatch(Tail(names), paths,
                IF os_path_exists(source_path)
                THEN [py_files |-> Append(batch.py_files, source_path),
                      file_map |-> DictPut(DictPut(batch.file_map,
                                                   os_path_abspath(source_path), filename),
                                           source_path, filename)]
                ELSE batch)

RECURSIVE MpyOriginals(_, _, _)
\* the second loop of pathway B2: raw's keys back to the reported names
MpyOriginals(raw, file_map, result) ==
    IF raw = <<>> THEN result
    ELSE LET source_path == Head(raw)[1]
             original == DictGetOr(file_map, source_path,
                             DictGetOr(file_map, os_path_abspath(source_path),
                                       source_path))
         IN MpyOriginals(Tail(raw), file_map, DictPut(result, original, Head(raw)[2]))

\* Pathway B2
_resolve_executable_lines_mpy(names, paths, mpy_cross_bin) ==
    LET batch == MpyBatch(names, paths, [py_files |-> <<>>, file_map |-> <<>>])
        raw == get_executable_lines(batch.py_files, mpy_cross_bin).result
    IN MpyOriginals(raw, batch.file_map, <<>>)

Methods == {"co_lines", "ast", "mpy", "auto"}

\* a slip: auto falls back to the grammar pathway for the files the decoder
\* has nothing for
ResolveExecutable_fallback(method, cov_data, names, paths, mpy_cross_bin) ==
    CASE method = "co_lines" -> _resolve_executable_lines_co_lines(cov_data)
      [] method = "ast" -> _resolve_executable_lines_ast(names, paths)
      [] method = "mpy" -> _resolve_executable_lines_mpy(names, paths, mpy_cross_bin)
      [] method = "auto" ->
            LET mpy == _resolve_executable_lines_mpy(names, paths, mpy_cross_bin)
                ast == _resolve_executable_lines_ast(names, paths)
            IN mpy \o SelectSeq(ast, LAMBDA e : ~DictHas(mpy, e[1]))

\* lines 198-211: the method's pathway
ResolveExecutable(method, cov_data, names, paths, mpy_cross_bin) ==
    CASE method = "co_lines" -> _resolve_executable_lines_co_lines(cov_data)
      [] method = "ast" -> _resolve_executable_lines_ast(names, paths)
      [] method = "mpy" -> _resolve_executable_lines_mpy(names, paths, mpy_cross_bin)
      [] method = "auto" -> _resolve_executable_lines_mpy(names, paths, mpy_cross_bin)

RECURSIVE RootPaths(_, _, _)
\* lines 191-195: a relative path is joined under source_root
RootPaths(names, source_root, paths) ==
    IF names = <<>> THEN paths
    ELSE LET current == DictGet(paths, Head(names))
         IN RootPaths(Tail(names), source_root,
                IF ~os_path_isabs(current)
                THEN DictPut(paths, Head(names), os_path_join(source_root, current))
                ELSE paths)

\* a slip: the reporter is built whatever the statement set
HasStatements_any(exec_lines) == TRUE

\* not (not exec_lines)
HasStatements(exec_lines) == exec_lines # {}

RECURSIVE FileReporters(_, _, _, _)
\* lines 216-225: one MpyFileReporter per file with statements and a source
FileReporters(names, paths, executable, reporters) ==
    IF names = <<>> THEN reporters
    ELSE LET filename == Head(names)
             source_path == DictGetOr(paths, filename, filename)
             exec_lines == DictGetOr(executable, filename, {})
         IN FileReporters(Tail(names), paths, executable,
                IF ~HasStatements(exec_lines) THEN reporters
                ELSE IF ~os_path_exists(source_path) THEN reporters
                ELSE DictPut(reporters, filename,
                             [exec_lines |-> exec_lines, source_path |-> source_path]))

RECURSIVE LineData(_, _, _)
\* lines 237-240: the executed lines of the files that have a reporter
LineData(executed, reporters, line_data) ==
    IF executed = <<>> THEN line_data
    ELSE LineData(Tail(executed), reporters,
             IF DictHas(reporters, Head(executed)[1])
             THEN DictPut(line_data, Head(executed)[1], Range(Head(executed)[2]))
             ELSE line_data)

RECURSIVE Counts(_, _)
\* the engine's totals: <<statements executed, statements>> over the reporters
Counts(reporters, line_data) ==
    IF reporters = <<>> THEN <<0, 0>>
    ELSE LET rest == Counts(Tail(reporters), line_data)
             statements == Head(reporters)[2].exec_lines
             lines == DictGetOr(line_data, Head(reporters)[1], {})
         IN <<rest[1] + Cardinality(statements \cap lines),
              rest[2] + Cardinality(statements)>>

\* a percentage, as the fraction num / den
Percent(num, den) == [num |-> num, den |-> den]

\* cov_obj.report(): the percentage of the statements that were executed
EngineReport(reporters, line_data) ==
    LET counts == Counts(reporters, line_data)
    IN IF counts[2] = 0 THEN Percent(100, 1) ELSE Percent(100 * counts[1], counts[2])

\* what a call of run_report resolved (paths, statements), what it gave the
\* reporting engine (reporters, add_lines, add_arcs) and what it returned
ReportOutcome(exc, paths, statements, reporters, line_data, arc_data, total) ==
    [exc |-> exc, source_paths |-> paths, statements |-> statements,
     file_reporters |-> reporters,
     line_data |-> line_data, arc_data |-> arc_data, total |-> total]

run_report(cov_data, method, source_root, mappings, mpy_cross_bin) ==
    LET executed == DictGetOr(cov_data, "executed", <<>>)
        names == DictKeys(executed)
        mapped == _apply_path_map(names, mappings)
        paths == IF ~source_root.is_none /\ source_root.value # <<>>
                 THEN RootPaths(names, source_root.value, mapped)
                 ELSE mapped
        executable == ResolveExecutable(method, cov_data, names, paths, mpy_cross_bin)
        file_reporters == FileReporters(names, paths, executable, <<>>)
        line_data == LineData(executed, file_reporters, <<>>)
    IN IF method \notin Methods
       THEN ReportOutcome("ValueError", paths, <<>>, <<>>, <<>>, <<>>, None)
       ELSE IF file_reporters = <<>>
       THEN ReportOutcome("none", paths, executable, <<>>, <<>>, <<>>,
                          Some(Percent(0, 1)))
       ELSE ReportOutcome("none", paths, executable, file_reporters, line_data, <<>>,
                          Some(EngineReport(file_reporters, line_data)))

----------------------------------------------------------------------------
(* run_report on any record *)

\* a file as the device names it, and the rule that maps it to the host
DevSimplePy == <<"/", "d", "/", "a", ".", "p", "y">>
DevToSrc == <<"/", "d", "=", "/", "s">>

ReportedFiles == {SimplePy, EmptyPy, SlowPy, GonePy, DevSimplePy, ModulePy}

\* lists of distinct files: the keys of a dict
DistinctSeqs(S, n) ==
    {q \in SeqsUpTo(S, n) : \A i, j \in 1..Len(q) : i # j => q[i] # q[j]}

\* the run executed lines 1 and 2 of every file it names
ExecutedOf(names) == [i \in 1..Len(names) |-> <<names[i], <<1, 2>> >>]

\* the device's executable map: no line for a file whose code has no co_lines
ExecutableOf(names) ==
    [i \in 1..Len(names) |->
        <<names[i], IF names[i] = EmptyPy THEN <<>> ELSE <<1, 2, 4, 5>> >>]

ArcsOf(names) == [i \in 1..Len(names) |-> <<names[i], ArcsOfRun(<<1, 2>>)>>]

\* records of a plain run, of a run with collect_executable, and of a run
\* with collect_executable and collect_arcs
ReportRecords ==
    UNION {{ExecutedRecord(ExecutedOf(names)),
            << <<"executed", ExecutedOf(names)>>,
               <<"executable", ExecutableOf(names)>> >>,
            << <<"executed", ExecutedOf(names)>>,
               <<"executable", ExecutableOf(names)>>,
               <<"arcs", ArcsOf(names)>> >>} :
           names \in DistinctSeqs(ReportedFiles, MaxReported)}

ReportArgs ==
    [cov_data : ReportRecords,
     method : Methods \cup {"bogus"},
     source_root : {None, Some(Cwd)},
     path_maps : {<<>>, <<DevToSrc>>},
     mpy_cross : {"present", "absent"}]

ReportInit ==
    /\ report_args \in ReportArgs
    /\ report = <<>>
    /\ report_pc = "idle"

ReportCall ==
    /\ report_pc = "idle"
    /\ report' = run_report(report_args.cov_data, report_args.method,
                            report_args.source_root, report_args.path_maps,
                            report_args.mpy_cross)
    /\ report_pc' = IF report'.exc = "none" THEN "done" ELSE "raised"
    /\ UNCHANGED report_args

ReportRun ==
    ReportCall
        /\ UNCHANGED <<tracerVars, mergeVars, decoderVars, cmd_ret, pathVars, testMapVars,
                       runSideVars, tableVars, programVars>>

SpecReportInit ==
    /\ ReportInit
    /\ TracerInit
    /\ MergeIdle
    /\ DecoderIdle
    /\ CmdIdle
    /\ PathMapIdle
    /\ TestMapIdle
    /\ RunSideIdle
    /\ TableIdle
    /\ ProgramIdle

SpecReport == SpecReportInit /\ [][ReportRun]_vars

----------------------------------------------------------------------------
(* Properties of run_report *)

ReportedNames == DictKeys(DictGetOr(report_args.cov_data, "executed", <<>>))

\* C15: a file has a reporter only if its resolved statement set is present
\* and not empty; a file with an empty or absent statement set has no reporter
\* and no executed lines injected; when no file qualifies, run_report returns
\* 0.0 and does not raise.
C15_EmptyStatementsExcluded ==
    /\ report_args.method \in Methods => report_pc # "raised"
    /\ report_pc = "done" =>
          /\ \A filename \in Range(ReportedNames) :
                LET exec_lines == DictGetOr(report.statements, filename, {})
                IN /\ DictHas(report.file_reporters, filename) =>
                         /\ DictHas(report.statements, filename)
                         /\ exec_lines # {}
                         /\ DictGet(report.file_reporters, filename).exec_lines = exec_lines
                   /\ exec_lines = {} =>
                         /\ ~DictHas(report.file_reporters, filename)
                         /\ ~DictHas(report.line_data, filename)
          /\ Range(DictKeys(report.line_data)) \subseteq Range(DictKeys(report.file_reporters))
          /\ report.file_reporters = <<>> => report.total = Some(Percent(0, 1))

\* a record of one good file and one file the device reported no line for,
\* with method co_lines: the good file alone is reported
C15_Witness ==
    /\ report_pc = "done"
    /\ report_args.method = "co_lines"
    /\ ReportedNames = <<SimplePy, EmptyPy>>
    /\ DictHas(report.statements, EmptyPy)
    /\ DictKeys(report.file_reporters) = <<SimplePy>>
    /\ report.total = Some(Percent(100 * 2, 4))

C17_ArcsSupplied ==
    report_pc = "done" =>
        \A filename \in Range(DictKeys(report.file_reporters)) :
            LET arcs == DictGetOr(report_args.cov_data, "arcs", <<>>)
            IN DictHas(arcs, filename) =>
                  /\ DictHas(report.line_data, filename)
                  /\ DictHas(report.arc_data, filename)
                  /\ DictGet(report.arc_data, filename) = Range(DictGet(arcs, filename))

----------------------------------------------------------------------------
(* cli.py: cmd_report *)

\* the parameters of run_report (report.py 172-174)
run_report_params ==
    {"cov_data", "method", "source_root", "path_maps", "mpy_cross",
     "mpy_tools_dir", "formats", "output_dir", "show_missing"}

\* the keywords cmd_report calls it with, after the positional cov_data
cmd_report_keywords ==
    {"method", "source_root", "path_maps", "mpy_cross", "mpy_tools_dir",
     "formats", "output_dir", "show_missing", "branch"}

\* calling a function that has no **kwargs: a keyword it does not declare is
\* a TypeError
CallKeywords(params, keywords) ==
    IF keywords \subseteq params THEN "none" ELSE "TypeError"

\* the merged record, run_report's outcome and what the subcommand returned
CmdOutcome(merge, outcome, ret) == [merged |-> merge, report |-> outcome, ret |-> ret]

\* lines 318-330: run_report was called and the subcommand returns 0
ReportGenerated(merge, outcome) ==
    IF outcome.exc # "none" THEN CmdOutcome(merge, outcome, Raised(outcome.exc))
    ELSE CmdOutcome(merge, outcome, Returned(0))

\* lines 312-330: the records are merged, run_report is called with keywords
GenerateReport(merge, args) ==
    IF merge.exc # "none" THEN CmdOutcome(<<>>, <<>>, Raised(merge.exc))
    ELSE IF CallKeywords(run_report_params, cmd_report_keywords) # "none"
    THEN CmdOutcome(merge.value, <<>>,
                    Raised(CallKeywords(run_report_params, cmd_report_keywords)))
    ELSE ReportGenerated(merge.value,
                         run_report(merge.value, args.method, args.source_root,
                                    args.path_maps, args.mpy_cross))

cmd_report(files, args) ==
    IF files = <<>> THEN CmdOutcome(<<>>, <<>>, Returned(1))
    ELSE GenerateReport(merge_coverage_data(files), args)

CmdArgs ==
    [cov_data : {<<>>},
     method : {"auto", "ast"},
     source_root : {None},
     path_maps : {<<>>},
     mpy_cross : {"present"}]

\* any data directory, the subcommand not yet run
CmdInit ==
    /\ json_files \in SeqsUpTo(StoredFiles, MaxRecords)
    /\ merged = <<>>
    /\ merge_pc = "idle"
    /\ report_args \in CmdArgs
    /\ report = <<>>
    /\ report_pc = "idle"
    /\ CmdIdle

\* the state a subcommand leaves behind
CmdLeaves(r) ==
    /\ merged' = r.merged
    /\ merge_pc' = IF json_files = <<>> THEN "idle"
                   ELSE IF r.ret.exc \in {"none", "TypeError"} THEN "done"
                   ELSE "raised"
    /\ report' = r.report
    /\ report_pc' = IF r.report = <<>> THEN "idle"
                    ELSE IF r.report.exc = "none" THEN "done" ELSE "raised"
    /\ cmd_ret' = r.ret

CmdReport ==
    /\ cmd_ret = NotCalled
    /\ CmdLeaves(cmd_report(json_files, report_args))
    /\ UNCHANGED <<json_files, report_args>>

CmdReportRun ==
    CmdReport
        /\ UNCHANGED <<tracerVars, decoderVars, pathVars, testMapVars,
                       runSideVars, tableVars, programVars>>

SpecCmdReportInit ==
    /\ CmdInit
    /\ TracerInit
    /\ DecoderIdle
    /\ PathMapIdle
    /\ TestMapIdle
    /\ RunSideIdle
    /\ TableIdle
    /\ ProgramIdle

SpecCmdReport == SpecCmdReportInit /\ [][CmdReportRun]_vars

\* C18: on a data directory with at least one parseable record the report
\* subcommand merges, generates the report and returns 0; on a data directory
\* with no record file it returns 1 and generates no report.
C18_ReportStatus ==
    cmd_ret.pc # "idle" =>
        IF json_files = <<>>
        THEN cmd_ret = Returned(1) /\ report_pc = "idle"
        ELSE (\E i \in 1..Len(json_files) : json_files[i].parseable) =>
                 /\ cmd_ret = Returned(0)
                 /\ merge_pc = "done"
                 /\ report_pc = "done"

----------------------------------------------------------------------------
(* _apply_path_map on any rules and paths *)

\* --path-map arguments: /d/a=/h/a, /d=/h/x, /e=/h, =/r, and one without "="
NarrowRule == <<"/", "d", "/", "a", "=", "/", "h", "/", "a">>
BroadRule == <<"/", "d", "=", "/", "h", "/", "x">>
OtherRule == <<"/", "e", "=", "/", "h">>
AnyRule == <<"=", "/", "r">>
NotARule == <<"/", "d">>

PathRules == {NarrowRule, BroadRule, OtherRule, AnyRule, NotARule}

\* reported paths: /d/a/m.py, /d/b.py, /x.py
DevAModPy == <<"/", "d", "/", "a", "/", "m", ".", "p", "y">>
DevBPy == <<"/", "d", "/", "b", ".", "p", "y">>
XPy == <<"/", "x", ".", "p", "y">>

ReportedPaths == {DevAModPy, DevBPy, XPy}

PathMapInit ==
    /\ filenames \in SeqsUpTo(ReportedPaths, MaxReported)
    /\ path_maps \in SeqsUpTo(PathRules, MaxRules)
    /\ source_paths = <<>>

PathMapCall ==
    /\ filenames # <<>>
    /\ source_paths = <<>>
    /\ source_paths' = _apply_path_map(filenames, path_maps)
    /\ UNCHANGED <<filenames, path_maps>>

PathMapRun ==
    PathMapCall
        /\ UNCHANGED <<tracerVars, mergeVars, decoderVars, reportVars, cmd_ret, testMapVars,
                       runSideVars, tableVars, programVars>>

SpecPathMapInit ==
    /\ PathMapInit
    /\ TracerInit
    /\ MergeIdle
    /\ DecoderIdle
    /\ ReportIdle
    /\ CmdIdle
    /\ TestMapIdle
    /\ RunSideIdle
    /\ TableIdle
    /\ ProgramIdle

SpecPathMap == SpecPathMapInit /\ [][PathMapRun]_vars

\* mapping is the rule devicePrefix=hostPrefix and devicePrefix is a prefix of
\* the path, remainder being what follows it
RuleMaps(mapping, devicePrefix, hostPrefix, path, remainder) ==
    /\ mapping = devicePrefix \o <<Equals>> \o hostPrefix
    /\ Equals \notin Range(devicePrefix)
    /\ path = devicePrefix \o remainder

Prefixes(s) == {SubSeq(s, 1, n) : n \in 0..Len(s)}
Suffixes(s) == {SubSeq(s, n, Len(s)) : n \in 1..(Len(s) + 1)}

\* the rule matches the path
RuleMatches(mapping, path) ==
    \E devicePrefix \in Prefixes(mapping), hostPrefix \in Suffixes(mapping),
       remainder \in Suffixes(path) :
        RuleMaps(mapping, devicePrefix, hostPrefix, path, remainder)

\* C19: every path is mapped to hostPrefix + remainder of the first rule in
\* list order whose devicePrefix is a prefix of it, whatever later rules
\* match, and to itself when no rule matches.
C19_FirstMatchWins ==
    source_paths # <<>> =>
        \A path \in Range(filenames) :
            /\ DictHas(source_paths, path)
            /\ \A i \in 1..Len(path_maps) :
                  (/\ RuleMatches(path_maps[i], path)
                   /\ \A j \in 1..(i - 1) : ~RuleMatches(path_maps[j], path))
                  => \E devicePrefix \in Prefixes(path_maps[i]),
                        hostPrefix \in Suffixes(path_maps[i]),
                        remainder \in Suffixes(path) :
                         /\ RuleMaps(path_maps[i], devicePrefix, hostPrefix,
                                     path, remainder)
                         /\ DictGet(source_paths, path) = hostPrefix \o remainder
            /\ (\A i \in 1..Len(path_maps) : ~RuleMatches(path_maps[i], path))
                  => DictGet(source_paths, path) = path

\* /d/a/m.py under the rules /d/a=/h/a, /d=/h/x is /h/a/m.py, and /d/b.py,
\* which only the broader rule matches, is /h/x/b.py
C19_Witness ==
    /\ path_maps = <<NarrowRule, BroadRule>>
    /\ filenames = <<DevAModPy, DevBPy>>
    /\ source_paths =
          << <<DevAModPy, <<"/", "h", "/", "a", "/", "m", ".", "p", "y">> >>,
             <<DevBPy, <<"/", "h", "/", "x", "/", "b", ".", "p", "y">> >> >>

----------------------------------------------------------------------------
(* cli.py: _extract_test_name, cmd_test_map *)

\* the characters of the sample strings, in code point order
Alphabet ==
    <<".", "/", "0", "1", "2", "3", "4", "5", "6", "7", "8", "9", "_",
      "a", "b", "c", "d", "e", "f", "g", "h", "i", "j", "k", "l", "m",
      "n", "o", "p", "q", "r", "s", "t", "u", "v", "w", "x", "y", "z">>

ord(c) == CHOOSE i \in 1..Len(Alphabet) : Alphabet[i] = c

\* a < b for strings
str_lt(a, b) ==
    \E k \in 1..(Len(b)) :
        /\ k <= Len(a) + 1
        /\ SubSeq(a, 1, k - 1) = SubSeq(b, 1, k - 1)
        /\ k = Len(a) + 1 \/ ord(a[k]) < ord(b[k])

RECURSIVE sorted_strs(_)
\* sorted(S) of a set of strings
sorted_strs(S) ==
    IF S = {} THEN <<>>
    ELSE LET m == CHOOSE a \in S : \A b \in S \ {a} : str_lt(a, b)
         IN <<m>> \o sorted_strs(S \ {m})

Digits == <<"0", "1", "2", "3", "4", "5", "6", "7", "8", "9">>

RECURSIVE str(_)
\* str(n) of a non-negative integer
str(n) == IF n < 10 THEN <<Digits[n + 1]>> ELSE str(n \div 10) \o <<Digits[(n % 10) + 1]>>

\* os.path.basename(path)
os_path_basename(path) ==
    LET slashes == {i \in 1..Len(path) : path[i] = Slash}
        last == IF slashes = {} THEN 0
                ELSE CHOOSE i \in slashes : \A j \in slashes : j <= i
    IN SubSeq(path, last + 1, Len(path))

DotJson == <<".", "j", "s", "o", "n">>

\* s.removesuffix(suffix)
removesuffix(s, suffix) ==
    IF /\ Len(suffix) <= Len(s)
       /\ SubSeq(s, Len(s) - Len(suffix) + 1, Len(s)) = suffix
    THEN SubSeq(s, 1, Len(s) - Len(suffix))
    ELSE s

\* a slip: the metadata is not looked at
_extract_test_name_from_path(json_path, data) ==
    LET basename == os_path_basename(json_path)
    IN IF Len(basename) > 21 /\ basename[9] = "_" /\ basename[16] = "_"
       THEN removesuffix(SubSeq(basename, 17, Len(basename)), DotJson)
       ELSE removesuffix(basename, DotJson)

_extract_test_name(json_path, data) ==
    LET meta == DictGetOr(data, "_metadata", <<>>)
        basename == os_path_basename(json_path)
    IN IF DictHas(meta, "test_script") THEN DictGet(meta, "test_script")
       ELSE IF Len(basename) > 21 /\ basename[9] = "_" /\ basename[16] = "_"
       THEN removesuffix(SubSeq(basename, 17, Len(basename)), DotJson)
       ELSE removesuffix(basename, DotJson)

\* d[k].add(x), after d[k] = set() for a new key
DictAdd(d, k, x) == DictPut(d, k, DictGetOr(d, k, {}) \cup {x})

RECURSIVE AddLines(_, _, _)
\* lines 453-456: for line in lines
AddLines(by_line, lines, test_name) ==
    IF lines = <<>> THEN by_line
    ELSE AddLines(DictAdd(by_line, Head(lines), test_name), Tail(lines), test_name)

RECURSIVE AddExecuted(_, _, _, _)
\* lines 445-456: for filename, lines in data.get("executed", {}).items()
AddExecuted(maps, executed, test_name, detail) ==
    IF executed = <<>> THEN maps
    ELSE LET filename == Head(executed)[1]
             lines == Head(executed)[2]
         IN AddExecuted(
                [file_map |-> DictAdd(maps.file_map, filename, test_name),
                 line_map |-> IF detail
                              THEN DictPut(maps.line_map, filename,
                                       AddLines(DictGetOr(maps.line_map, filename, <<>>),
                                                lines, test_name))
                              ELSE maps.line_map],
                Tail(executed), test_name, detail)

RECURSIVE ReadRecords(_, _, _)
\* lines 435-456: for json_path in json_files; a file json.load cannot read
\* is skipped with a warning
ReadRecords(files, detail, maps) ==
    IF files = <<>> THEN maps
    ELSE LET json_path == Head(files).path
             loaded == Head(files).file
         IN ReadRecords(Tail(files), detail,
                IF ~loaded.parseable THEN maps
                ELSE AddExecuted(maps, DictGetOr(loaded.data, "executed", <<>>),
                                 _extract_test_name(json_path, loaded.data), detail))

RECURSIVE Flatten(_)
\* the rows of nested loops, in order
Flatten(lists) == IF lists = <<>> THEN <<>> ELSE Head(lists) \o Flatten(Tail(lists))

\* lines 471-473: rows of (app_file, test)
FileRows(file_map) ==
    LET files == sorted_strs(Range(DictKeys(file_map)))
    IN Flatten([i \in 1..Len(files) |->
           LET tests == sorted_strs(DictGet(file_map, files[i]))
           IN [k \in 1..Len(tests) |-> <<files[i], tests[k]>>]])

\* lines 465-467: (app_file, str(line), test) for the lines of one file
LineRowsOf(app_file, by_line) ==
    LET lines == sorted(Range(DictKeys(by_line)))
    IN Flatten([j \in 1..Len(lines) |->
           LET tests == sorted_strs(DictGet(by_line, lines[j]))
           IN [k \in 1..Len(tests) |-> <<app_file, str(lines[j]), tests[k]>>]])

\* lines 464-467: rows of (app_file, line, test)
LineRows(line_map) ==
    LET files == sorted_strs(Range(DictKeys(line_map)))
    IN Flatten([i \in 1..Len(files) |->
                   LineRowsOf(files[i], DictGet(line_map, files[i]))])

\* lines 458-476: the rows printed and the status returned
TestMapRows(maps, detail) ==
    IF maps.file_map = <<>> THEN [rows |-> <<>>, ret |-> Returned(1)]
    ELSE [rows |-> IF detail THEN LineRows(maps.line_map) ELSE FileRows(maps.file_map),
          ret |-> Returned(0)]

cmd_test_map(files, detail) ==
    IF files = <<>> THEN [rows |-> <<>>, ret |-> Returned(1)]
    ELSE TestMapRows(ReadRecords(files, detail, [file_map |-> <<>>, line_map |-> <<>>]),
                     detail)

----------------------------------------------------------------------------
(* cmd_test_map on any data directory *)

\* d/20240101_120000_ta.json, d/20240101_120001_tb.json, d/p.json
TaJson ==
    <<"d", "/", "2", "0", "2", "4", "0", "1", "0", "1", "_", "1", "2", "0",
      "0", "0", "0", "_", "t", "a", ".", "j", "s", "o", "n">>
TbJson ==
    <<"d", "/", "2", "0", "2", "4", "0", "1", "0", "1", "_", "1", "2", "0",
      "0", "0", "1", "_", "t", "b", ".", "j", "s", "o", "n">>
PJson == <<"d", "/", "p", ".", "j", "s", "o", "n">>

RecordPaths == {TaJson, TbJson, PJson}

\* run labels
Ta == <<"t", "a">>
Tb == <<"t", "b">>
LabelP == <<"p">>
LabelM == <<"m">>

\* the executed maps of the sample records
ExecutedMaps ==
    {<< <<FooPy, <<2, 10>> >> >>,
     << <<FooPy, <<2>> >> >>,
     << <<FooPy, <<10>> >>, <<BarPy, <<1>> >> >>,
     <<>>}

\* the record get_data() gives with and without test_script
LabelledRecord(executed, test_script) ==
    << <<"executed", executed>>,
       <<"_metadata", << <<"test_script", test_script>> >> >> >>

TestMapRecords ==
    {ExecutedRecord(e) : e \in ExecutedMaps}
    \cup {LabelledRecord(e, t) : e \in ExecutedMaps, t \in {Ta, LabelM}}

\* a file of the data directory under its path
NamedFile(path, file) == [path |-> path, file |-> file]

NamedFiles ==
    {NamedFile(path, file) :
        path \in RecordPaths,
        file \in {StoredFile(d) : d \in TestMapRecords} \cup {MalformedFile}}

\* sorted(glob.glob(...)): distinct paths in ascending order
DataDirs ==
    {dir \in SeqsUpTo(NamedFiles, MaxRecords) :
        \A i \in 1..(Len(dir) - 1) : str_lt(dir[i].path, dir[i + 1].path)}

TestMapInit ==
    /\ data_dir \in DataDirs
    /\ line_detail \in BOOLEAN
    /\ rows = <<>>
    /\ test_map_ret = NotCalled

\* what the subcommand prints and returns
TestMapLeaves(r) ==
    /\ rows' = r.rows
    /\ test_map_ret' = r.ret

TestMapCall ==
    /\ test_map_ret = NotCalled
    /\ TestMapLeaves(cmd_test_map(data_dir, line_detail))
    /\ UNCHANGED <<data_dir, line_detail>>

TestMapRun ==
    TestMapCall
        /\ UNCHANGED <<tracerVars, mergeVars, decoderVars, reportVars, cmd_ret, pathVars,
                       runSideVars, tableVars, programVars>>

SpecTestMapInit ==
    /\ TestMapInit
    /\ TracerInit
    /\ MergeIdle
    /\ DecoderIdle
    /\ ReportIdle
    /\ CmdIdle
    /\ PathMapIdle
    /\ RunSideIdle
    /\ TableIdle
    /\ ProgramIdle

SpecTestMap == SpecTestMapInit /\ [][TestMapRun]_vars

----------------------------------------------------------------------------
(* Properties of the attribution index *)

\* the label a storage name stands for
NameLabel(path) ==
    CASE path = TaJson -> Ta
      [] path = TbJson -> Tb
      [] path = PJson -> LabelP

\* the label of a stored record: its metadata label when it has one
RunLabel(named) ==
    LET meta == DictGetOr(named.file.data, "_metadata", <<>>)
    IN IF DictHas(meta, "test_script") THEN DictGet(meta, "test_script")
       ELSE NameLabel(named.path)

Readable == {named \in Range(data_dir) : named.file.parseable}

ExecutedIn(named) == DictGetOr(named.file.data, "executed", <<>>)

\* (file, label): some readable record with the label has the file
FileAttribution ==
    UNION {{<<ExecutedIn(named)[i][1], RunLabel(named)>> :
              i \in 1..Len(ExecutedIn(named))} : named \in Readable}

\* (file, line, label): some readable record with the label has the line
LineAttribution ==
    UNION {UNION {{<<ExecutedIn(named)[i][1], l, RunLabel(named)>> :
                     l \in Range(ExecutedIn(named)[i][2])} :
                  i \in 1..Len(ExecutedIn(named))} : named \in Readable}

\* the line numbers of the sample records
SampleLines == UNION {UNION {Range(e[i][2]) : i \in 1..Len(e)} : e \in ExecutedMaps}

\* the number a printed line stands for
LineOf(text) == CHOOSE l \in SampleLines : str(l) = text

FileRowLess(r1, r2) ==
    \/ str_lt(r1[1], r2[1])
    \/ r1[1] = r2[1] /\ str_lt(r1[2], r2[2])

LineRowLess(r1, r2) ==
    \/ str_lt(r1[1], r2[1])
    \/ r1[1] = r2[1] /\ LineOf(r1[2]) < LineOf(r2[2])
    \/ r1[1] = r2[1] /\ r1[2] = r2[2] /\ str_lt(r1[3], r2[3])

\* C20: the rows are exactly the (file, label) pairs, in line-detail mode the
\* (file, line, label) triples, of the readable records, a record's label
\* being its metadata label when present and the label of its storage name
\* otherwise; files come in lexicographic order, lines in ascending numeric
\* order and labels in lexicographic order.
C20_AttributionIndex ==
    test_map_ret.pc # "idle" =>
        /\ test_map_ret.pc = "returned"
        /\ ~line_detail =>
              /\ Range(rows) = FileAttribution
              /\ \A k \in 1..(Len(rows) - 1) : FileRowLess(rows[k], rows[k + 1])
        /\ line_detail =>
              /\ Range(rows) = {<<t[1], str(t[2]), t[3]>> : t \in LineAttribution}
              /\ \A k \in 1..(Len(rows) - 1) : LineRowLess(rows[k], rows[k + 1])

\* line detail of two records: one labelled by its name, with lines 2 and 10
\* of foo.py, one labelled by its metadata, with foo.py before bar.py
C20_Witness ==
    /\ line_detail
    /\ data_dir =
          <<NamedFile(TaJson, StoredFile(ExecutedRecord(<< <<FooPy, <<2, 10>> >> >>))),
            NamedFile(PJson, StoredFile(LabelledRecord(
                << <<FooPy, <<10>> >>, <<BarPy, <<1>> >> >>, LabelM)))>>
    /\ rows = << <<BarPy, <<"1">>, LabelM>>,
                 <<FooPy, <<"2">>, Ta>>,
                 <<FooPy, <<"1", "0">>, LabelM>>,
                 <<FooPy, <<"1", "0">>, Ta>> >>

----------------------------------------------------------------------------
(* tracer.py: export_json; cli.py: _extract_json_from_output; report.py: the *)
(* text _load_json reads.  Texts are sequences of characters.               *)

COV_DELIM_START ==
    <<"-", "-", "-", "M", "P", "Y", "_", "C", "O", "V", "_",
      "S", "T", "A", "R", "T", "-", "-", "-">>

COV_DELIM_END ==
    <<"-", "-", "-", "M", "P", "Y", "_", "C", "O", "V", "_",
      "E", "N", "D", "-", "-", "-">>

\* print(text)
print(text) == text \o <<"\n">>

RECURSIVE Join(_, _)
\* sep.join(texts)
Join(texts, sep) ==
    IF texts = <<>> THEN <<>>
    ELSE IF Len(texts) = 1 THEN texts[1]
    ELSE texts[1] \o sep \o Join(Tail(texts), sep)

CommaSpace == <<",", " ">>

JsonInt(n) == IF n < 0 THEN <<"-">> \o str(-n) ELSE str(n)

JsonString(chars) == <<"\"">> \o chars \o <<"\"">>

JsonArray(texts) == <<"[">> \o Join(texts, CommaSpace) \o <<"]">>

\* members: a sequence of <<key text, value text>>
JsonObject(members) ==
    <<"{">>
    \o Join([i \in 1..Len(members) |->
                JsonString(members[i][1]) \o <<":", " ">> \o members[i][2]],
            CommaSpace)
    \o <<"}">>

\* the characters of a record's section names
KeyChars(key) ==
    CASE key = "executed" -> <<"e", "x", "e", "c", "u", "t", "e", "d">>
      [] key = "executable" -> <<"e", "x", "e", "c", "u", "t", "a", "b", "l", "e">>
      [] key = "arcs" -> <<"a", "r", "c", "s">>
      [] key = "_metadata" -> <<"_", "m", "e", "t", "a", "d", "a", "t", "a">>
      [] key = "test_script" -> <<"t", "e", "s", "t", "_", "s", "c", "r", "i", "p", "t">>

\* the text of one section of a record: lists of lines, lists of arcs, or names
JsonSection(key, d) ==
    JsonObject(
        [i \in 1..Len(d) |->
            CASE key = "arcs" ->
                    <<d[i][1],
                      JsonArray([j \in 1..Len(d[i][2]) |->
                                    JsonArray(<<JsonInt(d[i][2][j][1]),
                                                JsonInt(d[i][2][j][2])>>)])>>
              [] key = "_metadata" -> <<KeyChars(d[i][1]), JsonString(d[i][2])>>
              [] OTHER ->
                    <<d[i][1],
                      JsonArray([j \in 1..Len(d[i][2]) |-> JsonInt(d[i][2][j])])>>])

\* json.dumps(data) of a record, as the str it returns
json_dumps_str(data) ==
    JsonObject([i \in 1..Len(data) |->
                   <<KeyChars(data[i][1]), JsonSection(data[i][1], data[i][2])>>])

\* export_json(path): what it prints and what it writes to the file at path
export_json(data, path) ==
    LET json_str == json_dumps_str(data)
    IN IF path.is_none
       THEN [printed |-> print(COV_DELIM_START) \o print(json_str)
                         \o print(COV_DELIM_END),
             written |-> None]
       ELSE [printed |-> <<>>, written |-> Some(json_str \o <<"\n">>)]

\* the characters \s matches
Whitespace == {" ", "\t", "\n", "\r"}

\* text[i:].startswith(literal), i counted from 1
MatchesAt(text, i, literal) ==
    /\ i + Len(literal) - 1 <= Len(text)
    /\ SubSeq(text, i, i + Len(literal) - 1) = literal

FindAll(text, literal) == {i \in 1..Len(text) : MatchesAt(text, i, literal)}

\* where a greedy \s* that starts at i ends
SkipSpace(text, i) ==
    CHOOSE j \in i..(Len(text) + 1) :
        /\ \A k \in i..(j - 1) : text[k] \in Whitespace
        /\ j = Len(text) + 1 \/ text[j] \notin Whitespace

\* re.search tries the start positions from left to right
FirstStart(starts) == SetMin(starts)

\* re.search(START\s*(.*?)\s*END, text, re.DOTALL): group 1 of the match, or
\* None.  The search takes the leftmost start delimiter that has an end
\* delimiter after it, skips the white space, and the lazy group stops
\* before the white space that leads to the first end delimiter.
re_search(text) ==
    LET ends == FindAll(text, COV_DELIM_END)
        starts == {i \in FindAll(text, COV_DELIM_START) :
                      \E k \in ends : k >= i + Len(COV_DELIM_START)}
    IN IF starts = {} THEN None
       ELSE LET i == FirstStart(starts)
                g == SkipSpace(text, i + Len(COV_DELIM_START))
                k == SetMin({n \in ends : n >= g})
                e == SetMin({n \in g..k : \A j \in n..(k - 1) : text[j] \in Whitespace})
            IN Some(SubSeq(text, g, e - 1))

\* The sample of records a target exports
FullRecord ==
    << <<"executed", << <<FooPy, <<1, 2>> >> >> >>,
       <<"_metadata", << <<"test_script", <<"t">> >> >> >>,
       <<"executable", << <<FooPy, <<1, 2>> >>, <<BarPy, <<>> >> >> >>,
       <<"arcs", << <<FooPy, << <<-1, 1>>, <<1, 2>>, <<2, -1>> >> >> >> >> >>

CaptureRecords == RecordData \cup {ExecutedRecord(<<>>), FullRecord}

\* json.loads(text): the value whose text it is, or JSONDecodeError
json_loads(text) ==
    IF \E r \in CaptureRecords : json_dumps_str(r) = text
    THEN [exc |-> "none",
          value |-> CHOOSE r \in CaptureRecords : json_dumps_str(r) = text]
    ELSE [exc |-> "JSONDecodeError", value |-> <<>>]

\* cli.py: None without a match, else json.loads of group 1
_extract_json_from_output(output) ==
    LET match == re_search(output)
    IN IF match.is_none THEN [exc |-> "none", value |-> None]
       ELSE LET r == json_loads(match.value)
            IN [exc |-> r.exc,
                value |-> IF r.exc = "none" THEN Some(r.value) ELSE None]

\* report.py: json.loads of group 1 if the text holds the delimiters, else of
\* the whole text
LoadText(text) ==
    LET match == re_search(text)
        r == json_loads(IF match.is_none THEN text ELSE match.value)
    IN [exc |-> r.exc, value |-> IF r.exc = "none" THEN Some(r.value) ELSE None]

----------------------------------------------------------------------------
(* A target that prints, exports its record between the delimiters, prints  *)
(* again and exits; the two extractors applied to what it wrote             *)

Text_ok == <<"o", "k", "\n">>
Text_prompt == <<">", ">", ">", " ">>
Text_dashes == <<"-", "-", "-">>
\* the first 16 characters of the start delimiter, and no newline
Text_start_prefix == SubSeq(COV_DELIM_START, 1, 16)

\* what the traced program and the runtime write around the export
Outputs == {<<>>, Text_ok, Text_prompt, Text_dashes, Text_start_prefix}

HasDelimiter(text) ==
    FindAll(text, COV_DELIM_START) # {} \/ FindAll(text, COV_DELIM_END) # {}

ExportInit ==
    /\ capture \in CaptureRecords
    /\ stdout \in Outputs
    /\ target_pc = "running"
    /\ extracted = NotExtracted
    /\ load_ret = NotExtracted

\* the wrapper's last statement: mpy_coverage.export_json()
ExportJson ==
    /\ target_pc = "running"
    /\ stdout' = stdout \o export_json(capture, None).printed
    /\ target_pc' = "exported"
    /\ UNCHANGED <<capture, extracted, load_ret>>

\* the target exits, after more output or none, with or without an export
TargetExit ==
    /\ target_pc \in {"running", "exported"}
    /\ \E after \in Outputs : stdout' = stdout \o after
    /\ target_pc' = "exited"
    /\ UNCHANGED <<capture, extracted, load_ret>>

ExtractCall ==
    /\ target_pc = "exited"
    /\ extracted = NotExtracted
    /\ extracted' = _extract_json_from_output(stdout)
    /\ UNCHANGED <<capture, stdout, target_pc, load_ret>>

LoadCall ==
    /\ target_pc = "exited"
    /\ load_ret = NotExtracted
    /\ load_ret' = LoadText(stdout)
    /\ UNCHANGED <<capture, stdout, target_pc, extracted>>

ExportOthers ==
    <<tracerVars, mergeVars, decoderVars, reportVars, cmd_ret, pathVars, testMapVars,
      runVars, procs, tableVars, programVars>>

ExportRun == ExportJson /\ UNCHANGED ExportOthers

ExitRun == TargetExit /\ UNCHANGED ExportOthers

ExtractRun == ExtractCall /\ UNCHANGED ExportOthers

LoadRun == LoadCall /\ UNCHANGED ExportOthers

ExportNext == ExportRun \/ ExitRun \/ ExtractRun \/ LoadRun

SpecExportInit ==
    /\ ExportInit
    /\ TracerInit
    /\ MergeIdle
    /\ DecoderIdle
    /\ ReportIdle
    /\ CmdIdle
    /\ PathMapIdle
    /\ TestMapIdle
    /\ RunIdle
    /\ NoProcs
    /\ TableIdle
    /\ ProgramIdle

SpecExport == SpecExportInit /\ [][ExportNext]_vars

\* the target's output is `before`, the framed export of the record, `after`
Framed(before, after) ==
    stdout = before \o export_json(capture, None).printed \o after

\* C21: for every record and any output around its delimited export that does
\* not hold a delimiter itself, both extractors give back exactly the record;
\* and from an output without the delimiters the run-side extractor returns
\* None, not a record.
C21_ExportRoundTrip ==
    /\ \A before, after \in Outputs :
          (/\ ~HasDelimiter(before)
           /\ ~HasDelimiter(after)
           /\ target_pc = "exited"
           /\ Framed(before, after))
          => /\ extracted # NotExtracted
                => extracted = [exc |-> "none", value |-> Some(capture)]
             /\ load_ret # NotExtracted
                => load_ret = [exc |-> "none", value |-> Some(capture)]
    /\ (~HasDelimiter(stdout) /\ extracted # NotExtracted)
          => extracted = [exc |-> "none", value |-> None]

----------------------------------------------------------------------------
(* cli.py: _make_data_filename, _run_unix, _run_device, cmd_run *)

\* the clock ticks this many times a second; "%Y%m%d_%H%M%S" drops the rest
TicksPerSecond == 2

\* datetime.now().strftime("%Y%m%d_%H%M%S"): the whole seconds, as text
strftime(now) == str(now \div TicksPerSecond)

\* os.path.splitext(name)[0]: the name up to its last dot, leading dots aside
splitext_root(name) ==
    LET dots == {i \in 2..Len(name) : name[i] = "." /\ \E j \in 1..(i - 1) : name[j] # "."}
    IN IF dots = {} THEN name
       ELSE SubSeq(name, 1, (CHOOSE i \in dots : \A j \in dots : j <= i) - 1)

_make_data_filename(test_script, now) ==
    strftime(now) \o <<"_">> \o splitext_root(os_path_basename(test_script)) \o DotJson

\* the working directory's names
TracerDst == "mpy_coverage.py"
TempNames == {"tmp1.py", "tmp2.py", "tmp3.py"}

\* os.path.exists(name)
Exists(cwd, name) == \E file \in cwd : file[1] = name

\* os.unlink(name)
Unlink(cwd, name) == {file \in cwd : file[1] # name}

\* a file written or copied under the name: what was there is replaced
WriteFile(cwd, name, content) == Unlink(cwd, name) \cup {<<name, content>>}

\* tempfile.NamedTemporaryFile(suffix=".py", dir=cwd): a name not in use
NewTemp(cwd) == CHOOSE name \in TempNames : ~Exists(cwd, name)

\* what subprocess.run gave: TimeoutExpired, or the exit status and the stdout
Exited(returncode, out) == [timeout |-> FALSE, returncode |-> returncode, stdout |-> out]
TimedOut == [timeout |-> TRUE, returncode |-> 0, stdout |-> <<>>]

RunOutcome(ret, cwd, dir) == [ret |-> ret, cwd |-> cwd, store |-> dir]

\* a slip: the record is stored whatever the exit status was
ExitedZero_any(result) == TRUE

\* result.returncode != 0 leaves with status 1
ExitedZero(result) == result.returncode = 0

\* the body both run functions share, from the exit status to the record
\* written with open(out_path, "w"): the returned status and the directory
SaveCapture(result, test_script, dir, now) ==
    IF result.timeout THEN [ret |-> Raised("TimeoutExpired"), store |-> dir]
    ELSE IF ~ExitedZero(result) THEN [ret |-> Returned(1), store |-> dir]
    ELSE LET cov_data == _extract_json_from_output(result.stdout)
         IN IF cov_data.exc # "none"
            THEN [ret |-> Raised(cov_data.exc), store |-> dir]
            ELSE IF cov_data.value.is_none
            THEN [ret |-> Returned(1), store |-> dir]
            ELSE [ret |-> Returned(0),
                  store |-> DictPut(dir, _make_data_filename(test_script, now),
                                    cov_data.value.value)]

\* a slip: the finally block unlinks the tracer copy whoever deployed it
Cleanup_always(cwd, wrapper_path, tracer_deployed) ==
    Unlink(Unlink(cwd, wrapper_path), TracerDst)

\* the finally block of _run_unix
Cleanup(cwd, wrapper_path, tracer_deployed) ==
    IF tracer_deployed
    THEN Unlink(Unlink(cwd, wrapper_path), TracerDst)
    ELSE Unlink(cwd, wrapper_path)

_run_unix(args, env, cwd, dir, now) ==
    IF args.micropython.is_none /\ ~env.found
    THEN RunOutcome(Returned(1), cwd, dir)
    ELSE LET wrapper_path == NewTemp(cwd)
             cwd1 == WriteFile(cwd, wrapper_path, "wrapper")
             tracer_deployed == ~Exists(cwd1, TracerDst)
             cwd2 == IF tracer_deployed
                     THEN WriteFile(cwd1, TracerDst, "tracer")
                     ELSE cwd1
             body == SaveCapture(env.target, args.test_script, dir, now)
         IN RunOutcome(body.ret, Cleanup(cwd2, wrapper_path, tracer_deployed),
                       body.store)

\* env.deploy names the mpremote copy that fails: "tracer", "test", "wrapper"
\* or "none"
_run_device(args, env, cwd, dir, now) ==
    IF ~args.no_deploy /\ env.deploy = "tracer"
    THEN RunOutcome(Returned(1), cwd, dir)
    ELSE IF env.deploy = "test"
    THEN RunOutcome(Returned(1), cwd, dir)
    ELSE LET wrapper_path == NewTemp(cwd)
             cwd1 == WriteFile(cwd, wrapper_path, "wrapper")
             body == IF env.deploy = "wrapper"
                     THEN [ret |-> Returned(1), store |-> dir]
                     ELSE SaveCapture(env.target, args.test_script, dir, now)
         IN RunOutcome(body.ret, Unlink(cwd1, wrapper_path), body.store)

cmd_run(args, env, cwd, dir, now) ==
    IF ~env.isfile THEN RunOutcome(Returned(1), cwd, dir)
    ELSE IF ~args.device.is_none THEN _run_device(args, env, cwd, dir, now)
    ELSE _run_unix(args, env, cwd, dir, now)

----------------------------------------------------------------------------
(* Runs of the run subcommand, one after another, while the clock ticks *)

ScriptAT == <<"a", "/", "t", ".", "p", "y">>
ScriptBT == <<"b", "/", "t", ".", "p", "y">>
ScriptU == <<"u", ".", "p", "y">>
TestScripts == {ScriptAT, ScriptBT, ScriptU}

RunArgs(test_script, device, micropython, no_deploy) ==
    [test_script |-> test_script, device |-> device, micropython |-> micropython,
     no_deploy |-> no_deploy]

\* what a run meets: os.path.isfile(test_script), whether _find_micropython
\* finds a binary, the mpremote copy that fails, what the target process does
RunEnv(isfile, found, deploy, target) ==
    [isfile |-> isfile, found |-> found, deploy |-> deploy, target |-> target]

OneLineRecord == ExecutedRecord(<< <<FooPy, <<1>> >> >>)

TargetResults ==
    {Exited(0, Text_ok \o export_json(OneLineRecord, None).printed),
     Exited(0, export_json(FullRecord, None).printed \o Text_prompt),
     Exited(0, Text_ok),
     Exited(1, <<>>),
     Exited(1, export_json(OneLineRecord, None).printed),
     Exited(0, Text_start_prefix \o export_json(OneLineRecord, None).printed),
     TimedOut}

NoTarget == Exited(0, <<>>)

\* the calls of the sample: a missing script; unix runs without a binary and
\* with one; device runs whose copies fail and whose copies succeed
RunCalls ==
    UNION {
        {<<RunArgs(t, None, None, FALSE), RunEnv(FALSE, TRUE, "none", NoTarget)>>,
         <<RunArgs(t, None, None, FALSE), RunEnv(TRUE, FALSE, "none", NoTarget)>>,
         <<RunArgs(t, Some(<<"d", "e", "v">>), None, FALSE), RunEnv(TRUE, TRUE, "tracer", NoTarget)>>,
         <<RunArgs(t, Some(<<"d", "e", "v">>), None, TRUE), RunEnv(TRUE, TRUE, "wrapper", NoTarget)>>}
        \cup {<<RunArgs(t, None, Some(<<"m", "p">>), FALSE), RunEnv(TRUE, FALSE, "none", r)>> :
                r \in TargetResults}
        \cup {<<RunArgs(t, Some(<<"d", "e", "v">>), None, TRUE), RunEnv(TRUE, TRUE, "none", r)>> :
                r \in TargetResults}
        : t \in TestScripts}

RunInit ==
    /\ cwd_files \in {{}, {<<TracerDst, "user">>}}
    /\ store = <<>>
    /\ clock = 0
    /\ run_call = <<>>
    /\ run_ret = NotCalled
    /\ runs = 0
    /\ succeeded = 0

RunLeaves(call, outcome) ==
    /\ run_call' = call
    /\ run_ret' = outcome.ret
    /\ cwd_files' = outcome.cwd
    /\ store' = outcome.store
    /\ runs' = runs + 1
    /\ succeeded' = IF outcome.ret = Returned(0) THEN succeeded + 1 ELSE succeeded
    /\ UNCHANGED clock

CmdRun ==
    /\ runs < MaxRuns
    /\ \E call \in RunCalls :
          RunLeaves(call, cmd_run(call[1], call[2], cwd_files, store, clock))

Tick ==
    /\ clock < MaxClock
    /\ clock' = clock + 1
    /\ UNCHANGED <<cwd_files, store, run_call, run_ret, runs, succeeded>>

RunOthers ==
    <<tracerVars, mergeVars, decoderVars, reportVars, cmd_ret, pathVars, testMapVars,
      exportVars, procs, tableVars, programVars>>

CmdRunStep == CmdRun /\ UNCHANGED RunOthers

TickStep == Tick /\ UNCHANGED RunOthers

RunNext == CmdRunStep \/ TickStep

SpecRunInit ==
    /\ RunInit
    /\ TracerInit
    /\ MergeIdle
    /\ DecoderIdle
    /\ ReportIdle
    /\ CmdIdle
    /\ PathMapIdle
    /\ TestMapIdle
    /\ ExportIdle
    /\ NoProcs
    /\ TableIdle
    /\ ProgramIdle

SpecRun == SpecRunInit /\ [][RunNext]_vars

----------------------------------------------------------------------------
(* Properties of the run subcommand *)

\* the call ran the target process: the script is there, and the binary
\* (unix) or every copy to the device succeeded
RanTarget(call) ==
    /\ call[2].isfile
    /\ call[1].device.is_none => ~(call[1].micropython.is_none /\ ~call[2].found)
    /\ ~call[1].device.is_none =>
          /\ ~(~call[1].no_deploy /\ call[2].deploy = "tracer")
          /\ call[2].deploy \notin {"test", "wrapper"}

\* the text holds a start delimiter and, after it, an end delimiter
HasPayload(text) ==
    \E i \in FindAll(text, COV_DELIM_START), k \in FindAll(text, COV_DELIM_END) : i < k

\* the target of the call failed: nonzero exit, timeout, or no payload
TargetFailed(call) ==
    \/ call[2].target.timeout
    \/ call[2].target.returncode # 0
    \/ ~HasPayload(call[2].target.stdout)

\* C22: a run changes the data directory only if its target exited with status
\* zero and printed a delimited payload; when the target exits nonzero, times
\* out or prints no payload the directory is as before and the run does not
\* return 0.
C22_PersistsOnlyOnSuccess ==
    [][runs' = runs + 1 =>
          /\ store' # store => RanTarget(run_call') /\ ~TargetFailed(run_call')
          /\ (RanTarget(run_call') /\ TargetFailed(run_call'))
                => store' = store /\ run_ret' # Returned(0)]_vars

\* a run stored a record, and the next one timed out and left it alone
C22_Witness ==
    /\ runs = 2
    /\ succeeded = 1
    /\ Len(store) = 1
    /\ RanTarget(run_call)
    /\ run_call[2].target = TimedOut
    /\ run_ret = Raised("TimeoutExpired")

\* C23: every run that returns 0 leaves one more file in the data directory
\* than it found, and every file it found there is unchanged.
C23_AppendOnly ==
    [][(runs' = runs + 1 /\ run_ret' = Returned(0)) =>
          /\ Len(store') = Len(store) + 1
          /\ \A i \in 1..Len(store) : store'[i] = store[i]]_vars

\* the call was a unix run that got as far as writing its wrapper script
UnixRun(call) ==
    /\ call[2].isfile
    /\ call[1].device.is_none
    /\ ~(call[1].micropython.is_none /\ ~call[2].found)

\* C28: whatever way a unix run ends, its wrapper script is gone from the
\* working directory afterwards, and mpy_coverage.py is there afterwards
\* exactly if it was there before, with the content it had.
C28_WrapperCleanup ==
    [][(runs' = runs + 1 /\ UnixRun(run_call')) =>
          /\ \A name \in TempNames : Exists(cwd_files', name) => Exists(cwd_files, name)
          /\ \A content \in {"user", "tracer", "wrapper"} :
                <<TracerDst, content>> \in cwd_files'
                <=> <<TracerDst, content>> \in cwd_files]_vars

\* a unix run whose target timed out, beside somebody's own mpy_coverage.py
C28_Witness ==
    /\ runs > 0
    /\ UnixRun(run_call)
    /\ run_ret = Raised("TimeoutExpired")
    /\ cwd_files = {<<TracerDst, "user">>}

----------------------------------------------------------------------------
(* Two unix runs at once in one working directory: _run_unix, one system   *)
(* call at a time                                                          *)

\* the two runs and their test scripts
Procs == {1, 2}
ScriptOf(p) == IF p = 1 THEN ScriptAT ELSE ScriptU

\* a run at the start of _run_unix, its binary found
ProcStart ==
    [pc |-> "wrapper", wrapper_path |-> "", tracer_deployed |-> FALSE,
     imported |-> FALSE, ret |-> NotCalled]

RaceInit ==
    /\ procs = [p \in Procs |-> ProcStart]
    /\ cwd_files \in {{}, {<<TracerDst, "user">>}}
    /\ store = <<>>
    /\ clock = 0
    /\ run_call = <<>>
    /\ run_ret = NotCalled
    /\ runs = 0
    /\ succeeded = 0

RaceUnchanged == UNCHANGED <<clock, run_call, run_ret, runs, succeeded>>

\* 135-137: the wrapper is written under a fresh name
WriteWrapper(p) ==
    /\ procs[p].pc = "wrapper"
    /\ LET wrapper_path == NewTemp(cwd_files)
       IN /\ cwd_files' = WriteFile(cwd_files, wrapper_path, "wrapper")
          /\ procs' = [procs EXCEPT ![p].pc = "exists", ![p].wrapper_path = wrapper_path]
    /\ UNCHANGED store
    /\ RaceUnchanged

\* 142-143: tracer_deployed = False; if not os.path.exists(tracer_dst)
CheckTracer(p) ==
    /\ procs[p].pc = "exists"
    /\ procs' = [procs EXCEPT ![p].pc = IF Exists(cwd_files, TracerDst)
                                        THEN "spawn" ELSE "copy"]
    /\ UNCHANGED <<cwd_files, store>>
    /\ RaceUnchanged

\* 144-145: shutil.copy2(tracer_src, tracer_dst); tracer_deployed = True
CopyTracer(p) ==
    /\ procs[p].pc = "copy"
    /\ cwd_files' = WriteFile(cwd_files, TracerDst, "tracer")
    /\ procs' = [procs EXCEPT ![p].pc = "spawn", ![p].tracer_deployed = TRUE]
    /\ UNCHANGED store
    /\ RaceUnchanged

\* 148: subprocess.run starts the target on the wrapper
SpawnTarget(p) ==
    /\ procs[p].pc = "spawn"
    /\ procs' = [procs EXCEPT ![p].pc = "target"]
    /\ UNCHANGED <<cwd_files, store>>
    /\ RaceUnchanged

\* the wrapper's first statement, import mpy_coverage, finds the file or not
TargetImport(p) ==
    /\ procs[p].pc = "target"
    /\ procs' = [procs EXCEPT ![p].pc = "imported",
                              ![p].imported = Exists(cwd_files, TracerDst)]
    /\ UNCHANGED <<cwd_files, store>>
    /\ RaceUnchanged

\* what the target gives: its record, or status 1 after an ImportError
TargetOf(imported) ==
    IF imported THEN Exited(0, export_json(OneLineRecord, None).printed)
    ELSE Exited(1, <<>>)

\* 148-178: the target exits and the run stores its record or fails
TargetDone(p) ==
    /\ procs[p].pc = "imported"
    /\ LET body == SaveCapture(TargetOf(procs[p].imported), ScriptOf(p), store, clock)
       IN /\ store' = body.store
          /\ procs' = [procs EXCEPT ![p].pc = "unlink_wrapper", ![p].ret = body.ret]
    /\ UNCHANGED cwd_files
    /\ RaceUnchanged

\* 180: os.unlink(wrapper_path)
UnlinkWrapper(p) ==
    /\ procs[p].pc = "unlink_wrapper"
    /\ cwd_files' = Unlink(cwd_files, procs[p].wrapper_path)
    /\ procs' = [procs EXCEPT ![p].pc = "unlink_tracer"]
    /\ UNCHANGED store
    /\ RaceUnchanged

\* 181-182: if tracer_deployed: os.unlink(tracer_dst); FileNotFoundError
\* leaves the call if the file is gone
UnlinkTracer(p) ==
    /\ procs[p].pc = "unlink_tracer"
    /\ cwd_files' = IF procs[p].tracer_deployed
                    THEN Unlink(cwd_files, TracerDst) ELSE cwd_files
    /\ procs' = [procs EXCEPT
                    ![p].pc = "done",
                    ![p].ret = IF procs[p].tracer_deployed /\ ~Exists(cwd_files, TracerDst)
                               THEN Raised("FileNotFoundError") ELSE @]
    /\ UNCHANGED store
    /\ RaceUnchanged

RaceOthers ==
    <<tracerVars, mergeVars, decoderVars, reportVars, cmd_ret, pathVars, testMapVars,
      exportVars, tableVars, programVars>>

RaceWrapper == \E p \in Procs : WriteWrapper(p) /\ UNCHANGED RaceOthers

RaceCheck == \E p \in Procs : CheckTracer(p) /\ UNCHANGED RaceOthers

RaceCopy == \E p \in Procs : CopyTracer(p) /\ UNCHANGED RaceOthers

RaceSpawn == \E p \in Procs : SpawnTarget(p) /\ UNCHANGED RaceOthers

RaceImport == \E p \in Procs : TargetImport(p) /\ UNCHANGED RaceOthers

RaceDone == \E p \in Procs : TargetDone(p) /\ UNCHANGED RaceOthers

RaceUnlinkWrapper == \E p \in Procs : UnlinkWrapper(p) /\ UNCHANGED RaceOthers

RaceUnlinkTracer == \E p \in Procs : UnlinkTracer(p) /\ UNCHANGED RaceOthers

RaceNext ==
    \/ RaceWrapper
    \/ RaceCheck
    \/ RaceCopy
    \/ RaceSpawn
    \/ RaceImport
    \/ RaceDone
    \/ RaceUnlinkWrapper
    \/ RaceUnlinkTracer

SpecRaceInit ==
    /\ RaceInit
    /\ TracerInit
    /\ MergeIdle
    /\ DecoderIdle
    /\ ReportIdle
    /\ CmdIdle
    /\ PathMapIdle
    /\ TestMapIdle
    /\ ExportIdle
    /\ TableIdle
    /\ ProgramIdle

SpecRace == SpecRaceInit /\ [][RaceNext]_vars

\* C29: while the target of either run is executing, mpy_coverage.py is in
\* the working directory.
C29_TracerPresentWhileRunning ==
    \A p \in Procs :
        procs[p].pc \in {"target", "imported"} => Exists(cwd_files, TracerDst)

----------------------------------------------------------------------------
(* The decoder on any line table and a sample of nested units *)

\* the entries of a line table: two unsigned increments
Entries == (0..MaxDelta) \X (0..MaxDelta)

Tables == SeqsUpTo(Entries, MaxEntries)

\* a function of one line; a function that holds a closure; a unit that has
\* no line table
OneLineUnit == RawCode(Some(<< <<0, 1>> >>), <<>>)
ClosureUnit ==
    RawCode(Some(<< <<0, 0>>, <<2, 3>> >>),
            << RawCode(Some(<< <<0, 3>>, <<1, 0>> >>), <<>>) >>)
NoTableUnit == RawCode(None, <<>>)

ChildUnits == {OneLineUnit, ClosureUnit, NoTableUnit}

Units == {RawCode(Some(t), c) : t \in Tables, c \in SeqsUpTo(ChildUnits, MaxChildren)}

TableInit ==
    /\ unit \in Units
    /\ decoded_lines = {}
    /\ decoded = FALSE

\* lines = set(); _extract_lines_from_raw_code(rc, lines)
DecodeUnit ==
    /\ ~decoded
    /\ decoded_lines' = _extract_lines_from_raw_code(unit, {})
    /\ decoded' = TRUE
    /\ UNCHANGED unit

DecodeUnitRun ==
    DecodeUnit
        /\ UNCHANGED <<tracerVars, mergeVars, decoderVars, reportVars, cmd_ret, pathVars,
                       testMapVars, runSideVars, programVars>>

SpecLineTableInit ==
    /\ TableInit
    /\ TracerInit
    /\ MergeIdle
    /\ DecoderIdle
    /\ ReportIdle
    /\ CmdIdle
    /\ PathMapIdle
    /\ TestMapIdle
    /\ RunSideIdle
    /\ ProgramIdle

SpecLineTable == SpecLineTableInit /\ [][DecodeUnitRun]_vars

RECURSIVE RunningLine(_, _)
\* the running line after the first i entries of a table: 1 plus their lineDeltas
RunningLine(table, i) ==
    IF i = 0 THEN 1 ELSE RunningLine(table, i - 1) + table[i][2]

\* the running lines at the entries with a nonzero delta, where positive
TableLines(table) ==
    {RunningLine(table, i) :
        i \in {j \in 1..Len(table) :
                  /\ table[j][1] # 0 \/ table[j][2] # 0
                  /\ RunningLine(table, j) > 0}}

RECURSIVE UnitLines(_)
\* ... unioned over a unit and all of its nested units
UnitLines(rc) ==
    (IF rc.fun_data.is_none THEN {} ELSE TableLines(rc.fun_data.value))
    \cup UNION {UnitLines(rc.children[i]) : i \in 1..Len(rc.children)}

\* C25: the decoder's result for a unit is exactly the set of running lines
\* (from 1, adding each entry's lineDelta) at the entries with at least one
\* nonzero delta and a positive running line, unioned over the unit and its
\* nested units; an entry with both deltas zero adds no line.
C25_DecoderLines == decoded => decoded_lines = UnitLines(unit)

\* a table whose first entry has both deltas zero, over a function that holds
\* a closure: line 1 is not in the result, lines 3 and 4 are
C25_Witness ==
    /\ decoded
    /\ unit = RawCode(Some(<< <<0, 0>>, <<0, 2>> >>), <<ClosureUnit>>)
    /\ decoded_lines = {3, 4}

----------------------------------------------------------------------------
(* A traced program: calls, lines and returns that nest properly, start()   *)
(* called at any point                                                      *)

ProgCodes == {"f", "g", "cov"}

ProgArgs ==
    {StartArgs(None, None, FALSE, TRUE, None),
     StartArgs(None, Some(<<Baz>>), FALSE, TRUE, None),
     DefaultArgs}

\* the line a frame reports in its call event: the line of its def
EntryLine(code) == co_firstlineno(code)

\* an active frame: its code and line, whether its call event made the local
\* hook its trace function, and, if that event pushed an entry, after how
\* many calls of start() and at which position of _last_line_stack
Activation(frame, traced, pushed, epoch, slot) ==
    [frame |-> frame, traced |-> traced, pushed |-> pushed, epoch |-> epoch,
     slot |-> slot]

ProgOthers ==
    <<mergeVars, decoderVars, reportVars, cmd_ret, pathVars, testMapVars, runSideVars,
      tableVars>>

ProgInit ==
    /\ call_stack = <<>>
    /\ nStarts = 0

ProgStart ==
    /\ \E args \in ProgArgs : StartCall(args)
    /\ nStarts' = nStarts + 1
    /\ UNCHANGED call_stack
    /\ UNCHANGED ProgOthers

\* the running frame, or the wrapper, calls a function
ProgCall ==
    /\ Len(call_stack) < MaxDepth
    /\ \E code \in ProgCodes :
          LET frame == [f_code |-> code, f_lineno |-> EntryLine(code)]
          IN /\ HookEvent(frame, "call")
             /\ call_stack' =
                   Append(call_stack,
                          Activation(frame, hook_ret' = "_local_trace",
                                     Len(_last_line_stack') > Len(_last_line_stack),
                                     nStarts, Len(_last_line_stack')))
    /\ UNCHANGED nStarts
    /\ UNCHANGED ProgOthers

\* the running frame moves to a line; only a frame with a trace function
\* gives a line event
ProgLine ==
    /\ call_stack # <<>>
    /\ call_stack[Len(call_stack)].traced
    /\ \E lineno \in CodeLines(call_stack[Len(call_stack)].frame.f_code) :
          LET frame == [call_stack[Len(call_stack)].frame EXCEPT !.f_lineno = lineno]
          IN /\ HookEvent(frame, "line")
             /\ call_stack' = [call_stack EXCEPT ![Len(call_stack)].frame = frame]
    /\ UNCHANGED nStarts
    /\ UNCHANGED ProgOthers

\* the running frame returns and gives its return event
ProgReturn ==
    /\ call_stack # <<>>
    /\ call_stack[Len(call_stack)].traced
    /\ HookEvent(call_stack[Len(call_stack)].frame, "return")
    /\ call_stack' = SubSeq(call_stack, 1, Len(call_stack) - 1)
    /\ UNCHANGED nStarts
    /\ UNCHANGED ProgOthers

\* a frame without a trace function returns: no event
ProgReturnUntraced ==
    /\ call_stack # <<>>
    /\ ~call_stack[Len(call_stack)].traced
    /\ call_stack' = SubSeq(call_stack, 1, Len(call_stack) - 1)
    /\ UNCHANGED nStarts
    /\ UNCHANGED tracerVars
    /\ UNCHANGED ProgOthers

ProgNext == ProgStart \/ ProgCall \/ ProgLine \/ ProgReturn \/ ProgReturnUntraced

SpecProgramInit ==
    /\ ProgInit
    /\ TracerInit
    /\ MergeIdle
    /\ DecoderIdle
    /\ ReportIdle
    /\ CmdIdle
    /\ PathMapIdle
    /\ TestMapIdle
    /\ RunSideIdle
    /\ TableIdle

SpecProgram == SpecProgramInit /\ [][ProgNext]_vars

\* the running frame's entry is the top of _last_line_stack: its call event
\* pushed one, start() has not been called since, and it is the last one
TopIsOwn ==
    /\ call_stack # <<>>
    /\ call_stack[Len(call_stack)].pushed
    /\ call_stack[Len(call_stack)].epoch = nStarts
    /\ call_stack[Len(call_stack)].slot = Len(_last_line_stack)

FileArcs(arcs, filename) == DictGetOr(arcs, filename, {})

Popped(stack) == SubSeq(stack, 1, Len(stack) - 1)

\* C24: with arc collection on, the call event of an accepted callable adds
\* the arc (-firstLine, currentLine) and pushes (file, currentLine); a line
\* event of the frame whose entry is on top adds (lastLine, currentLine) and
\* makes currentLine the entry's line; its return event adds
\* (lastLine, -firstLine) and pops the entry; and a return event pops an
\* entry or adds an arc only if the entry on top is the one the returning
\* frame's own call event pushed.
C24_ArcProtocol ==
    [][(/\ nEvents' = nEvents + 1
        /\ _collect_arcs
        /\ hook_exc' = "none"
        /\ event'.op \in {"call", "line", "return"})
       => LET frame == event'.frame
              filename == co_filename(frame.f_code)
              first == co_firstlineno(frame.f_code)
              last == _last_line_stack[Len(_last_line_stack)][2]
          IN /\ (event'.op = "call" /\ hook_ret' = "_local_trace")
                   => /\ <<-first, frame.f_lineno>> \in FileArcs(_arcs', filename)
                      /\ _last_line_stack' =
                            Append(_last_line_stack, <<filename, frame.f_lineno>>)
             /\ (event'.op = "line" /\ TopIsOwn)
                   => /\ <<last, frame.f_lineno>> \in FileArcs(_arcs', filename)
                      /\ _last_line_stack' =
                            Append(Popped(_last_line_stack), <<filename, frame.f_lineno>>)
             /\ (event'.op = "return" /\ TopIsOwn)
                   => /\ <<last, -first>> \in FileArcs(_arcs', filename)
                      /\ _last_line_stack' = Popped(_last_line_stack)
             /\ (event'.op = "return"
                 /\ (_arcs' # _arcs \/ _last_line_stack' # _last_line_stack))
                   => TopIsOwn]_vars

\* f of foobar.py was entered at its first line, ran lines 2 and 3 and has
\* returned: entry arc, two interior arcs, exit arc, and an empty stack
C24_Witness ==
    /\ _collect_arcs
    /\ event.op = "return"
    /\ call_stack = <<>>
    /\ _last_line_stack = <<>>
    /\ FileArcs(_arcs, FoobarPy) = {<<-1, 1>>, <<1, 2>>, <<2, 3>>, <<3, -1>>}

\* C26: with arc collection on, every positive endpoint of a recorded arc of
\* a file is in the file's executed-line set.
C26_ArcEndpointsExecuted ==
    _collect_arcs =>
        \A i \in 1..Len(_arcs) :
            \A arc \in _arcs[i][2] :
                \A k \in 1..2 :
                    arc[k] > 0 => arc[k] \in DictGetOr(_executed, _arcs[i][1], {})

\* the files _should_trace accepts under the patterns start() was given
Accepted(filename) ==
    /\ ~Contains(filename, MpyCoverage)
    /\ ~_include.is_none => \E i \in 1..Len(_include.value) : Contains(filename, _include.value[i])
    /\ ~_exclude.is_none => \A i \in 1..Len(_exclude.value) : ~Contains(filename, _exclude.value[i])

\* the (file, line) of the active frames of accepted files, outermost first
AcceptedFrames ==
    LET accepted == SelectSeq(call_stack,
                              LAMBDA a : Accepted(co_filename(a.frame.f_code)))
    IN [i \in 1..Len(accepted) |->
           <<co_filename(accepted[i].frame.f_code), accepted[i].frame.f_lineno>>]

\* C27: with arc collection on and start() called once, the frame stack holds
\* exactly one entry per active frame of an accepted file, in call order, each
\* with its frame's file and current line (so the top entry is that of the
\* accepted frame that runs, and the stack is empty when all have returned);
\* a frame of a rejected file has no trace function and no entry.
C27_StackMatchesFrames ==
    (nStarts = 1 /\ _collect_arcs /\ hook_exc = "none") =>
        /\ _last_line_stack = AcceptedFrames
        /\ \A i \in 1..Len(call_stack) :
              call_stack[i].traced <=> Accepted(co_filename(call_stack[i].frame.f_code))

\* f runs line 2 and has called into mpy_coverage.py, which is rejected, and
\* that frame has called g, which runs line 5
C27_Witness ==
    /\ nStarts = 1
    /\ _collect_arcs
    /\ Len(call_stack) = 3
    /\ ~call_stack[2].traced
    /\ _last_line_stack = << <<FoobarPy, 2>>, <<BarFooBazPy, 5>> >>

----------------------------------------------------------------------------
(* run_report on the record merge_coverage_data makes of stored records *)

\* records of runs with and without collect_executable and collect_arcs
DeviceRecords ==
    {ExecutedRecord(ExecutedOf(<<SimplePy>>)),
     << <<"executed", ExecutedOf(<<SimplePy>>)>>,
        <<"executable", ExecutableOf(<<SimplePy>>)>> >>,
     << <<"executed", ExecutedOf(<<EmptyPy>>)>>,
        <<"executable", ExecutableOf(<<EmptyPy>>)>> >>,
     << <<"executed", ExecutedOf(<<SimplePy, DevSimplePy>>)>>,
        <<"executable", ExecutableOf(<<SimplePy, DevSimplePy>>)>>,
        <<"arcs", ArcsOf(<<SimplePy, DevSimplePy>>)>> >>}

MergedReportArgs ==
    [cov_data : {<<>>},
     method : Methods,
     source_root : {None, Some(Cwd)},
     path_maps : {<<>>, <<DevToSrc>>},
     mpy_cross : {"present", "absent"}]

MergedReportInit ==
    /\ json_files \in SeqsUpTo({StoredFile(d) : d \in DeviceRecords}, MaxRecords)
    /\ merged = <<>>
    /\ merge_pc = "idle"
    /\ report_args \in MergedReportArgs
    /\ report = <<>>
    /\ report_pc = "idle"

\* merged = merge_coverage_data(json_files)
MergeStored ==
    /\ MergeCall
    /\ UNCHANGED <<report_args, report, report_pc>>

\* run_report(merged, method=..., ...): the merged record is the cov_data
ReportMerged ==
    /\ merge_pc = "done"
    /\ report_pc = "idle"
    /\ report_args' = [report_args EXCEPT !.cov_data = merged]
    /\ report' = run_report(merged, report_args.method, report_args.source_root,
                            report_args.path_maps, report_args.mpy_cross)
    /\ report_pc' = IF report'.exc = "none" THEN "done" ELSE "raised"
    /\ UNCHANGED <<json_files, merged, merge_pc>>

MergedReportOthers ==
    <<tracerVars, decoderVars, cmd_ret, pathVars, testMapVars, runSideVars, tableVars,
      programVars>>

MergeStoredRun == MergeStored /\ UNCHANGED MergedReportOthers

ReportMergedRun == ReportMerged /\ UNCHANGED MergedReportOthers

MergedReportNext == MergeStoredRun \/ ReportMergedRun

SpecMergedReportInit ==
    /\ MergedReportInit
    /\ TracerInit
    /\ DecoderIdle
    /\ CmdIdle
    /\ PathMapIdle
    /\ TestMapIdle
    /\ RunSideIdle
    /\ TableIdle
    /\ ProgramIdle

SpecMergedReport == SpecMergedReportInit /\ [][MergedReportNext]_vars

\* C30: whatever records were merged, with on-device executable data or
\* without, the merged record has no executable map, and run_report with the
\* co_lines method on it resolves no statements, reports no file and returns
\* 0.0.
C30_DeviceMethodOnMerged ==
    /\ merge_pc = "done" => ~DictHas(merged, "executable")
    /\ report_args.method = "co_lines" =>
          /\ report_pc # "raised"
          /\ report_pc = "done" =>
                /\ report_args.cov_data = merged
                /\ report.statements = <<>>
                /\ report.file_reporters = <<>>
                /\ report.total = Some(Percent(0, 1))

\* two stored records that both carry the device's executable lines of a file
\* that is there on the host, reported with the co_lines method
C30_Witness ==
    /\ Len(json_files) = 2
    /\ \A i \in 1..2 :
          DictGetOr(json_files[i].data, "executable", <<>>) = ExecutableOf(<<SimplePy>>)
    /\ report_args.method = "co_lines"
    /\ report_pc = "done"
    /\ report.total = Some(Percent(0, 1))

====
